---- MODULE Spec2Model ----
(***************************************************************************)
(* coinlib: client bindings to the Bitfinex and Bittrex REST APIs.         *)
(*                                                                         *)
(* One client object is modelled at a time.  `kind` says which class it    *)
(* is: the two Exchange implementations (exchanges/bitfinex.py,            *)
(* exchanges/bittrex.py on top of core/exchange.py) or the two raw         *)
(* clients (coinlib/bitfinex.py, coinlib/bitfinex_v2.py).  The remote      *)
(* service and the wall clock are the environment: every response and      *)
(* every clock change is a nondeterministic input.                         *)
(***************************************************************************)
EXTENDS Integers, Sequences, FiniteSets, TLC

(***************************************************************************)
(* Bounds.                                                                 *)
(***************************************************************************)
\* Largest value of the wall clock, in microseconds.
MaxClock == 1
\* Longest list of raw trades the remote returns.
MaxTrades == 2

(***************************************************************************)
(* Python values.                                                          *)
(***************************************************************************)
\* Python's None in a string-valued slot, and an attribute never assigned.
PyNone == "None"
Unset == "<unset>"
\* Optional values of the caches: None, or the cached object.
None == << >>
Some(x) == << x >>
\* No exception.
OK == "ok"
\* A response body without a 'message' entry.
NoMessage == "<no message>"
\* A dictionary without entries, as the headers of a request.
NoHeaders == [n \in {} |-> ""]
\* The payload or parameter dictionaries of the calls, by their keys.
EmptyDict == "{}"

ExchangeKinds == {"Bitfinex", "Bittrex"}

\* str.encode('utf-8') of the str arguments; None is passed through.
Encode(s) == IF s = PyNone THEN PyNone ELSE s

\* Python truthiness of a key or secret: None and the empty string are false.
Truthy(s) == s # PyNone /\ s # ""

(***************************************************************************)
(* The remote service.                                                     *)
(***************************************************************************)
\* The responses the remote may give to a request whose body, on success,
\* is one of D.  Bittrex wraps every body in a success/message/result
\* envelope; Bitfinex has no envelope and `success` is never read.
Response(s, b, m, d) ==
  [status |-> s, success |-> b, message |-> m, data |-> d]
Responses(k, D) ==
  LET none == CHOOSE d \in D : TRUE
  IN  {Response(200, TRUE, NoMessage, d) : d \in D}
      \cup {Response(st, FALSE, "boom", none) : st \in {400, 500}}
      \cup IF k = "Bittrex" THEN {Response(200, FALSE, "boom", none)}
           ELSE {}

\* requests.Response.raise_for_status raises HTTPError on 4xx and 5xx.
raise_for_status(r) == r.status >= 400 /\ r.status < 600
\* The text of that HTTPError, up to the reason and the URL.
HTTPErrorText(r) ==
  IF r.status < 500 THEN "4xx Client Error" ELSE "5xx Server Error"

(***************************************************************************)
(* Signing primitives.  hmac, base64 and json.dumps are injective on the   *)
(* values used, and are modelled as constructors that keep their           *)
(* arguments.                                                              *)
(***************************************************************************)
\* A message to sign or send: the encoding, the request path or URI, the
\* nonce, the API key (Bittrex' URI only) and the body or parameters.
Msg(enc, request, nonce, apikey, body) ==
  [enc |-> enc, request |-> request, nonce |-> nonce, apikey |-> apikey,
   body |-> body]

\* hmac.new(key, msg, digest).hexdigest()
Hmac(key, msg, digest) == [key |-> key, msg |-> msg, digest |-> digest]


(***************************************************************************)
(* The state of the client object, the wall clock and the record of the    *)
(* last call made on the client.                                           *)
(***************************************************************************)
VARIABLES
  kind,             \* class of the client, "" when the constructor raised
  _authenticated,   \* self._authenticated
  _api_key,         \* self._api_key (bytes)
  _api_secret,      \* self._api_secret (bytes)
  _session,         \* self._session: "open", or "closed" after close()
  _SYMBOLS,         \* Bitfinex._SYMBOLS: None or the list of symbols
  _SYMBOL_DETAILS,  \* Bitfinex._SYMBOL_DETAILS: None or the details by pair
  _MARKETS,         \* Bittrex._MARKETS: None or the markets by name
  clock,            \* time.time() in microseconds
  lastNonce,        \* nonce of the last signed request sent, -1 before it
  op,               \* the last call: method name
  args,             \* its arguments
  outcome,          \* OK, or the name of the exception it raised
  error,            \* the text of that exception
  result,           \* the value it returned
  requests,         \* the HTTP requests it sent, in order
  responses,        \* the responses to them
  pre               \* the client state the call started from

vars == <<kind, _authenticated, _api_key, _api_secret, _session, _SYMBOLS,
          _SYMBOL_DETAILS, _MARKETS, clock, lastNonce, op, args, outcome,
          error, result, requests, responses, pre>>

NoResult == "<no result>"
NoArgs == "()"

(***************************************************************************)
(* A call in progress.  The methods below are functions on this record:    *)
(* each takes the call as it stands and returns it after the method has    *)
(* run, with the requests it sent, the attributes it assigned, and either  *)
(* the value it returned (val) or the exception it raised (exc).  A        *)
(* method invoked on a call that has already raised does nothing.          *)
(*                                                                         *)
(* inbox holds the responses of the remote to the requests of the call,    *)
(* in the order the call sends them.  A request that finds no response     *)
(* there leaves the call blocked on it (exc = Pending): the call is then   *)
(* run again with one more response, chosen by the remote.                 *)
(***************************************************************************)
Pending == "<awaiting response>"

Begin ==
  [authenticated |-> _authenticated, key |-> _api_key, secret |-> _api_secret,
   session |-> _session, SYMBOLS |-> _SYMBOLS, DETAILS |-> _SYMBOL_DETAILS,
   MARKETS |-> _MARKETS,
   reqs |-> << >>, resps |-> << >>, nonce |-> lastNonce, inbox |-> << >>,
   exc |-> OK, msg |-> "", val |-> NoResult]

Raise(c, e, m) == [c EXCEPT !.exc = e, !.msg = m, !.val = NoResult]
Return(c, v) == [c EXCEPT !.val = v]

\* The query parameters of a request: the caller's parameters, and the
\* nonce and API key that Bittrex adds to them (-1 and Unset when absent).
Params(q, n, apikey) == [q |-> q, nonce |-> n, apikey |-> apikey]
NoParams == Params(EmptyDict, -1, Unset)

\* An HTTP request: method, URL (the base URL and the path of the endpoint),
\* query parameters, headers and JSON body, and the state of the session
\* it is sent on.
Request(method, base, path, params, headers, json) ==
  [method |-> method, url |-> base \o path, path |-> path, params |-> params,
   headers |-> headers, json |-> json, session |-> Unset]

\* The nonce a request carries: in x-bfx-payload (Bitfinex v1), in bfx-nonce
\* (Bitfinex v2) or in the query (Bittrex); -1 when it carries none.
NonceOf(req) ==
  IF "x-bfx-payload" \in DOMAIN req.headers
    THEN req.headers["x-bfx-payload"].nonce
  ELSE IF "bfx-nonce" \in DOMAIN req.headers THEN req.headers["bfx-nonce"]
  ELSE req.params.nonce
\* session.get / session.post that closes the session behind the request.
Send_closing(c, req) ==
  LET sent == [c EXCEPT !.reqs = Append(@, [req EXCEPT !.session = c.session]),
                        !.session = "closed",
                        !.nonce = IF NonceOf(req) >= 0 THEN NonceOf(req)
                                  ELSE @]
  IN  IF Len(c.inbox) <= Len(c.reqs) THEN Raise(sent, Pending, req.url)
      ELSE Return([sent EXCEPT !.resps = Append(@, c.inbox[Len(c.reqs) + 1])],
                  c.inbox[Len(c.reqs) + 1])

\* session.get / session.post: the request goes out on self._session and
\* the response comes back, as the value of the call.
Send(c, req) ==
  LET sent == [c EXCEPT !.reqs = Append(@, [req EXCEPT !.session = c.session]),
                        !.nonce = IF NonceOf(req) >= 0 THEN NonceOf(req)
                                  ELSE @]
  IN  IF Len(c.inbox) <= Len(c.reqs) THEN Raise(sent, Pending, req.url)
      ELSE Return([sent EXCEPT !.resps = Append(@, c.inbox[Len(c.reqs) + 1])],
                  c.inbox[Len(c.reqs) + 1])

\* Statement sequencing: s is the call after a statement, rest the
\* statements that follow it.  They do not run when the statement raised.
Then(s, rest(_)) == IF s.exc # OK THEN s ELSE rest(s)

\* try: <s> except e: <handler> else: <rest>
TryExcept(s, e, handler(_), rest(_)) ==
  IF s.exc = e THEN handler(s) ELSE Then(s, rest)

\* core/crypto.py nonce(), and the _nonce methods of the raw clients.
nonce == clock

(***************************************************************************)
(* exchanges/bitfinex.py: transport.                                       *)
(***************************************************************************)
Bitfinex_BASE_URL == "https://api.bitfinex.com/v1"

Bitfinex_sign(c, payload) ==
  IF ~Truthy(c.key) \/ ~Truthy(c.secret) THEN NoHeaders
  ELSE ("x-bfx-apikey" :> c.key) @@
       ("x-bfx-payload" :> Msg("b64json", payload.request, payload.nonce,
                               Unset, payload.body)) @@
       ("x-bfx-signature" :>
          Hmac(c.secret, Msg("b64json", payload.request, payload.nonce,
                             Unset, payload.body), "sha384"))

Bitfinex_get_request(c, path, params) ==
  Then(Send(c, Request("GET", Bitfinex_BASE_URL, path,
                       Params(params, -1, Unset), NoHeaders, EmptyDict)),
       LAMBDA s :
         IF s.val.status = 400
           THEN IF s.val.message = NoMessage
                  THEN Raise(s, "KeyError", "message")
                  ELSE Raise(s, "RequestFailedError", s.val.message)
         ELSE IF raise_for_status(s.val)
           THEN Raise(s, "HTTPError", HTTPErrorText(s.val))
         ELSE Return(s, s.val.data))

Bitfinex_post_request(c, path, body) ==
  Then(Send(c, Request("POST", Bitfinex_BASE_URL, path, NoParams,
                       Bitfinex_sign(c, [body |-> body, nonce |-> nonce,
                                         request |-> "/v1" \o path]),
                       EmptyDict)),
       LAMBDA s :
         IF s.val.status = 400
           THEN IF s.val.message = NoMessage
                  THEN Raise(s, "KeyError", "message")
                  ELSE Raise(s, "ValueError", s.val.message)
         ELSE IF raise_for_status(s.val)
           THEN Raise(s, "HTTPError", HTTPErrorText(s.val))
         ELSE Return(s, s.val.data))


(***************************************************************************)
(* exchanges/bittrex.py: transport.                                        *)
(***************************************************************************)
Bittrex_BASE_URL == "https://bittrex.com/api/v1.1"

\* The URI of a request: base, path and the sorted, encoded parameters.
Uri(url, params) == Msg("utf8", url, params.nonce, params.apikey, params.q)

Bittrex_sign(c, uri) == Hmac(c.secret, uri, "sha512")

\* The envelope of a Bittrex response, after raise_for_status.
Bittrex_unwrap(s) ==
  IF raise_for_status(s.val) THEN Raise(s, "HTTPError", HTTPErrorText(s.val))
  ELSE IF ~s.val.success
    THEN IF s.val.message = NoMessage THEN Raise(s, "KeyError", "message")
         ELSE Raise(s, "RequestFailedError", s.val.message)
  ELSE Return(s, s.val.data)

Bittrex_public_request(c, path, params) ==
  Then(Send(c, Request("GET", Bittrex_BASE_URL, path,
                       Params(params, -1, Unset), NoHeaders, EmptyDict)),
       Bittrex_unwrap)

Bittrex_signed_request(c, path, params) ==
  \* hmac.new rejects a key that is None
  IF c.secret = PyNone THEN Raise(c, "TypeError", "key")
  ELSE Then(Send(c, Request("GET", Bittrex_BASE_URL, path,
                            Params(params, nonce, c.key),
                            "apisign" :>
                              Bittrex_sign(c, Uri(Bittrex_BASE_URL \o path,
                                                  Params(params, nonce,
                                                         c.key))),
                            EmptyDict)),
            Bittrex_unwrap)


(***************************************************************************)
(* Python built-ins on the values used.                                    *)
(***************************************************************************)
\* float() of the decimal strings of the responses.
float(x) == CASE x = "0" -> 0 [] x = "1" -> 1 [] x = "1.0" -> 1
              [] x = "2" -> 2 [] x = "3" -> 3 [] x = "4" -> 4 [] x = "5" -> 5
              [] x = "6" -> 6 [] x = "7.0" -> 7 [] x = "8" -> 8

\* str.lower() and str.upper() of the currency codes.
lower(x) == CASE x \in {"USD", "usd"} -> "usd" [] x \in {"BTC", "btc"} -> "btc"
              [] x \in {"ETH", "eth"} -> "eth" [] x \in {"LTC", "ltc"} -> "ltc"
              [] x \in {"BUY", "buy"} -> "buy"
              [] x \in {"SELL", "sell"} -> "sell"
              [] x \in {"LIMIT", "limit"} -> "limit"
upper(x) == CASE x \in {"USD", "usd"} -> "USD" [] x \in {"BTC", "btc"} -> "BTC"
              [] x \in {"ETH", "eth"} -> "ETH" [] x \in {"LTC", "ltc"} -> "LTC"

\* x[:3] and x[3:] of the Bitfinex symbols.
head3(x) == CASE x = "btcusd" -> "btc" [] x = "ltcbtc" -> "ltc"
              [] x = "ethusd" -> "eth"
tail3(x) == CASE x = "btcusd" -> "usd" [] x = "ltcbtc" -> "btc"
              [] x = "ethusd" -> "usd"

\* Python's order on the strings that the code sorts.
StrRank(x) == CASE x = "BTC" -> 1 [] x = "ETH" -> 2 [] x = "LTC" -> 3
                [] x = "USD" -> 4 [] x = "btcusd" -> 5 [] x = "ethusd" -> 6
                [] x = "ltcbtc" -> 7

Range(f) == {f[i] : i \in DOMAIN f}

\* A stable sort of xs by the keys ks: ks[i] is the key of xs[i].
RECURSIVE InsertByKey(_, _, _, _)
InsertByKey(x, k, xs, ks) ==
  \* xs with keys ks, sorted; x goes after the elements whose key is <= k
  IF xs = << >> THEN << <<x>>, <<k>> >>
  ELSE IF ks[Len(ks)] <= k THEN << Append(xs, x), Append(ks, k) >>
  ELSE LET rest == InsertByKey(x, k, SubSeq(xs, 1, Len(xs) - 1),
                               SubSeq(ks, 1, Len(ks) - 1))
       IN  << Append(rest[1], xs[Len(xs)]), Append(rest[2], ks[Len(ks)]) >>

RECURSIVE SortedWithKeys(_, _)
SortedWithKeys(xs, ks) ==
  IF xs = << >> THEN << << >>, << >> >>
  ELSE LET n == Len(xs)
           front == SortedWithKeys(SubSeq(xs, 1, n - 1), SubSeq(ks, 1, n - 1))
       IN  InsertByKey(xs[n], ks[n], front[1], front[2])

\* sorted(xs, key=key)
sorted(xs, key(_)) ==
  SortedWithKeys(xs, [i \in DOMAIN xs |-> key(xs[i])])[1]

\* {key(x): value(x) for x in xs}: a later entry replaces an earlier one.
DictOf(xs, key(_), value(_)) ==
  [k \in {key(xs[i]) : i \in DOMAIN xs} |->
     value(xs[CHOOSE i \in DOMAIN xs :
                 key(xs[i]) = k
                 /\ \A j \in DOMAIN xs : key(xs[j]) = k => j <= i])]

\* Python's order on the (primary, secondary) tuples.
PairRank(p) == 10 * StrRank(p[1]) + StrRank(p[2])


\* All sequences over S of length at most n.
SeqsUpTo(S, n) == UNION {[1..k -> S] : k \in 0..n}

(***************************************************************************)
(* exchanges/bitfinex.py: methods.                                         *)
(***************************************************************************)
\* _symbols requesting the list whether or not it is stored.
Bitfinex_symbols_uncached(c) ==
  Then(Bitfinex_get_request(c, "/symbols", EmptyDict),
       LAMBDA g : [g EXCEPT !.SYMBOLS = Some(g.val)])

Bitfinex_symbols(c) ==
  IF c.SYMBOLS # None THEN Return(c, c.SYMBOLS[1])
  ELSE Then(Bitfinex_get_request(c, "/symbols", EmptyDict),
            LAMBDA g : [g EXCEPT !.SYMBOLS = Some(g.val)])

Bitfinex_make_symbol(c, primary, secondary) ==
  Then(Bitfinex_symbols(c),
       LAMBDA g :
         IF lower(secondary) \o lower(primary) \notin Range(g.val)
           THEN Raise(g, "ValueError", "Invalid pair")
         ELSE Return(g, lower(secondary) \o lower(primary)))

Bitfinex_symbol_details(c, primary, secondary) ==
  Then(IF c.DETAILS # None THEN c
       ELSE Then(Bitfinex_get_request(c, "/symbols_details", EmptyDict),
                 LAMBDA g :
                   [g EXCEPT !.DETAILS =
                      Some(DictOf(g.val, LAMBDA x : x.pair, LAMBDA x : x))]),
       LAMBDA d :
         Then(Bitfinex_make_symbol(d, primary, secondary),
              LAMBDA m :
                IF m.val \notin DOMAIN m.DETAILS[1]
                  THEN Raise(m, "KeyError", m.val)
                ELSE Return(m, m.DETAILS[1][m.val])))

Bitfinex_min_order_size(c, primary, secondary) ==
  Then(Bitfinex_symbol_details(c, primary, secondary),
       LAMBDA d : Return(d, float(d.val.minimum_order_size)))

Bitfinex_max_order_size(c, primary, secondary) ==
  Then(Bitfinex_symbol_details(c, primary, secondary),
       LAMBDA d : Return(d, float(d.val.maximum_order_size)))

Bitfinex_pairs(c) ==
  Then(Bitfinex_symbols(c),
       LAMBDA g :
         Return(g, sorted([i \in DOMAIN g.val |->
                              <<upper(tail3(g.val[i])),
                                upper(head3(g.val[i]))>>],
                          PairRank)))

\* ticker whose last is the mid price of the response.
Bitfinex_ticker_mid(c, primary, secondary) ==
  Then(Bitfinex_make_symbol(c, primary, secondary),
       LAMBDA m :
         Then(Bitfinex_get_request(m, "/pubticker/" \o m.val, EmptyDict),
              LAMBDA g :
                Return(g, [ask |-> float(g.val.ask), bid |-> float(g.val.bid),
                           last |-> float(g.val.mid),
                           high |-> float(g.val.high),
                           low |-> float(g.val.low),
                           volume |-> float(g.val.volume),
                           timestamp |-> float(g.val.timestamp)])))

Bitfinex_ticker(c, primary, secondary) ==
  Then(Bitfinex_make_symbol(c, primary, secondary),
       LAMBDA m :
         Then(Bitfinex_get_request(m, "/pubticker/" \o m.val, EmptyDict),
              LAMBDA g :
                Return(g, [ask |-> float(g.val.ask), bid |-> float(g.val.bid),
                           last |-> float(g.val.last_price),
                           high |-> float(g.val.high),
                           low |-> float(g.val.low),
                           volume |-> float(g.val.volume),
                           timestamp |-> float(g.val.timestamp)])))

\* trades that lists the oldest trade first once the symbols are cached.
Bitfinex_trades_by_cache(c, primary, secondary) ==
  Then(Bitfinex_make_symbol(c, primary, secondary),
       LAMBDA m :
         Then(Bitfinex_get_request(m, "/trades/" \o m.val,
                                   "{timestamp,limit_trades}"),
              LAMBDA g :
                Return(g, sorted([i \in DOMAIN g.val |->
                                    [quantity |-> float(g.val[i].amount),
                                     price |-> float(g.val[i].price),
                                     side |-> g.val[i].type,
                                     timestamp |->
                                       float(g.val[i].timestamp)]],
                                 LAMBDA x : IF c.SYMBOLS # None
                                              THEN x.timestamp
                                            ELSE -x.timestamp))))

Bitfinex_trades(c, primary, secondary) ==
  Then(Bitfinex_make_symbol(c, primary, secondary),
       LAMBDA m :
         Then(Bitfinex_get_request(m, "/trades/" \o m.val,
                                   "{timestamp,limit_trades}"),
              LAMBDA g :
                Return(g, sorted([i \in DOMAIN g.val |->
                                    [quantity |-> float(g.val[i].amount),
                                     price |-> float(g.val[i].price),
                                     side |-> g.val[i].type,
                                     timestamp |->
                                       float(g.val[i].timestamp)]],
                                 LAMBDA x : -x.timestamp))))

\* _balances that reads the available amount of each wallet.
Bitfinex_balances_available(c) ==
  Then(Bitfinex_post_request(c, "/balances", EmptyDict),
       LAMBDA g :
         Return(g, DictOf(SelectSeq(g.val,
                                    LAMBDA b : b.type = "exchange"
                                               /\ float(b.amount) > 0),
                          LAMBDA b : upper(b.currency),
                          LAMBDA b : float(b.available))))

Bitfinex_balances(c) ==
  Then(Bitfinex_post_request(c, "/balances", EmptyDict),
       LAMBDA g :
         Return(g, DictOf(SelectSeq(g.val,
                                    LAMBDA b : b.type = "exchange"
                                               /\ float(b.amount) > 0),
                          LAMBDA b : upper(b.currency),
                          LAMBDA b : float(b.amount))))

\* _place_order that returns the client order id (cid) of the response.
Bitfinex_order_cid(c, primary, secondary, side, amount, price, order_type) ==
  Then(Bitfinex_make_symbol(c, primary, secondary), LAMBDA m :
  Then(Bitfinex_min_order_size(m, primary, secondary), LAMBDA lo :
  Then(Bitfinex_max_order_size(lo, primary, secondary), LAMBDA hi :
    IF amount < lo.val THEN Raise(hi, "ValueError", "Minimum order size")
    ELSE IF amount > hi.val THEN Raise(hi, "ValueError", "Maximum order size")
    ELSE Then(Bitfinex_post_request(
                hi, "/order/new",
                [symbol |-> m.val, amount |-> amount,
                 price |-> IF order_type # "market" THEN price ELSE "1.0",
                 side |-> side, type |-> "exchange " \o order_type,
                 exchange |-> "bitfinex"]),
              LAMBDA g : Return(g, g.val.cid)))))

\* amount is a number; price is None or a number, written as str() prints it.
\* _place_order without the check of the maximum order size.
Bitfinex_order_no_max(c, primary, secondary, side, amount, price, order_type) ==
  Then(Bitfinex_make_symbol(c, primary, secondary), LAMBDA m :
  Then(Bitfinex_min_order_size(m, primary, secondary), LAMBDA lo :
  Then(Bitfinex_max_order_size(lo, primary, secondary), LAMBDA hi :
    IF amount < lo.val THEN Raise(hi, "ValueError", "Minimum order size")
    ELSE Then(Bitfinex_post_request(
                hi, "/order/new",
                [symbol |-> m.val, amount |-> amount,
                 price |-> IF order_type # "market" THEN price ELSE "1.0",
                 side |-> side, type |-> "exchange " \o order_type,
                 exchange |-> "bitfinex"]),
              LAMBDA g : Return(g, g.val.id)))))

Bitfinex_place_order(c, primary, secondary, side, amount, price, order_type) ==
  Then(Bitfinex_make_symbol(c, primary, secondary), LAMBDA m :
  Then(Bitfinex_min_order_size(m, primary, secondary), LAMBDA lo :
  Then(Bitfinex_max_order_size(lo, primary, secondary), LAMBDA hi :
    IF amount < lo.val THEN Raise(hi, "ValueError", "Minimum order size")
    ELSE IF amount > hi.val THEN Raise(hi, "ValueError", "Maximum order size")
    ELSE Then(Bitfinex_post_request(
                hi, "/order/new",
                [symbol |-> m.val, amount |-> amount,
                 price |-> IF order_type # "market" THEN price ELSE "1.0",
                 side |-> side, type |-> "exchange " \o order_type,
                 exchange |-> "bitfinex"]),
              LAMBDA g : Return(g, g.val.id)))))

Bitfinex_cancel_order(c, order_id) ==
  Then(Bitfinex_post_request(c, "/order/cancel", [order_id |-> order_id]),
       LAMBDA g : Return(g, PyNone))

\* details['type'].replace('exchange ', '')
OrderTypeOf(t) == CASE t = "exchange limit" -> "limit"
                    [] t = "exchange market" -> "market"
                    [] t = "exchange stop" -> "stop"
                    [] OTHER -> t

Bitfinex_order_details(c, order_id) ==
  Then(Bitfinex_post_request(c, "/order/status", [order_id |-> order_id]),
       LAMBDA g :
         Return(g, [primary |-> upper(tail3(g.val.symbol)),
                    secondary |-> upper(head3(g.val.symbol)),
                    order_type |-> OrderTypeOf(g.val.type),
                    side |-> g.val.side,
                    quantity |-> float(g.val.original_amount),
                    remaining |-> float(g.val.remaining_amount),
                    price |-> float(g.val.price),
                    timestamp_opened |-> float(g.val.timestamp),
                    status |-> IF g.val.is_live THEN "active"
                               ELSE IF g.val.is_cancelled THEN "canceled"
                               ELSE "executed"]))

Bitfinex_active_orders(c) ==
  Then(Bitfinex_post_request(c, "/orders", EmptyDict),
       LAMBDA g : Return(g, [i \in DOMAIN g.val |-> g.val[i].id]))

Bitfinex_past_orders(c) ==
  Then(Bitfinex_post_request(c, "/orders/hist", EmptyDict),
       LAMBDA g : Return(g, [i \in DOMAIN g.val |-> g.val[i].id]))


(***************************************************************************)
(* exchanges/bittrex.py: methods.                                          *)
(***************************************************************************)
\* dateutil.parser.parse(date).timestamp() of the dates of the responses.
Bittrex_timestamp(date) ==
  CASE date = "1970-01-01T00:00:01" -> 1
    [] date = "1970-01-01T00:00:01.000" -> 1
    [] date = "1970-01-01T00:00:02" -> 2
    [] date = "1970-01-01T00:00:08" -> 8

\* str.split('-') of a market name and str.split('_') of an order type.
split(x) == CASE x = "USD-BTC" -> <<"USD", "BTC">>
              [] x = "USD-ETH" -> <<"USD", "ETH">>
              [] x = "LIMIT_BUY" -> <<"LIMIT", "BUY">>
              [] x = "LIMIT_SELL" -> <<"LIMIT", "SELL">>


\* list(d): the keys of a dictionary.
list(d) ==
  CHOOSE xs \in [1..Cardinality(DOMAIN d) -> DOMAIN d] : Range(xs) = DOMAIN d

\* _markets requesting the list whether or not it is stored.
Bittrex_markets_uncached(c) ==
  Then(Bittrex_public_request(c, "/public/getmarkets", EmptyDict),
       LAMBDA g :
         Then([g EXCEPT !.MARKETS =
                 Some(DictOf(g.val, LAMBDA x : x.MarketName,
                             LAMBDA x : x))],
              LAMBDA s : Return(s, s.MARKETS[1])))

Bittrex_markets(c) ==
  IF c.MARKETS # None THEN Return(c, c.MARKETS[1])
  ELSE Then(Bittrex_public_request(c, "/public/getmarkets", EmptyDict),
            LAMBDA g :
              Then([g EXCEPT !.MARKETS =
                      Some(DictOf(g.val, LAMBDA x : x.MarketName,
                                  LAMBDA x : x))],
                   LAMBDA s : Return(s, s.MARKETS[1])))

Bittrex_make_symbol(c, primary, secondary) ==
  Then(Bittrex_markets(c),
       LAMBDA g :
         IF upper(primary) \o "-" \o upper(secondary) \notin DOMAIN g.val
           THEN Raise(g, "ValueError", "Invalid pair")
         ELSE Return(g, upper(primary) \o "-" \o upper(secondary)))

Bittrex_symbol_details(c, primary, secondary) ==
  Then(Bittrex_markets(c),
       LAMBDA ms :
         Then(Bittrex_make_symbol(ms, primary, secondary),
              LAMBDA m : Return(m, ms.val[m.val])))

Bittrex_min_order_size(c, primary, secondary) ==
  Then(Bittrex_symbol_details(c, primary, secondary),
       LAMBDA d : Return(d, float(d.val.MinTradeSize)))

Bittrex_pairs(c) ==
  Then(Bittrex_markets(c),
       LAMBDA g :
         Return(g, sorted([i \in DOMAIN list(g.val) |->
                             split(list(g.val)[i])],
                          PairRank)))

Bittrex_ticker(c, primary, secondary) ==
  Then(Bittrex_make_symbol(c, primary, secondary),
       LAMBDA m :
         Then(Bittrex_public_request(m, "/public/getmarketsummary",
                                     "{market}"),
              LAMBDA g :
                Return(g, [ask |-> float(g.val[1].Ask),
                           bid |-> float(g.val[1].Bid),
                           last |-> float(g.val[1].Last),
                           high |-> float(g.val[1].High),
                           low |-> float(g.val[1].Low),
                           volume |-> float(g.val[1].Volume),
                           timestamp |->
                             Bittrex_timestamp(g.val[1].TimeStamp)])))

\* trades sorted by timestamp, oldest first.
Bittrex_trades_oldest_first(c, primary, secondary) ==
  Then(Bittrex_make_symbol(c, primary, secondary),
       LAMBDA m :
         Then(Bittrex_public_request(m, "/public/getmarkethistory",
                                     "{market}"),
              LAMBDA g :
                Return(g, sorted([i \in DOMAIN g.val |->
                                    [quantity |-> float(g.val[i].Quantity),
                                     price |-> float(g.val[i].Price),
                                     side |-> lower(g.val[i].OrderType),
                                     timestamp |->
                                       Bittrex_timestamp(g.val[i].TimeStamp)]],
                                 LAMBDA x : x.timestamp))))

Bittrex_trades(c, primary, secondary) ==
  Then(Bittrex_make_symbol(c, primary, secondary),
       LAMBDA m :
         Then(Bittrex_public_request(m, "/public/getmarkethistory",
                                     "{market}"),
              LAMBDA g :
                Return(g, sorted([i \in DOMAIN g.val |->
                                    [quantity |-> float(g.val[i].Quantity),
                                     price |-> float(g.val[i].Price),
                                     side |-> lower(g.val[i].OrderType),
                                     timestamp |->
                                       Bittrex_timestamp(g.val[i].TimeStamp)]],
                                 LAMBDA x : -x.timestamp))))

Bittrex_balances(c) ==
  Then(Bittrex_signed_request(c, "/account/getbalances", EmptyDict),
       LAMBDA g :
         Return(g, DictOf(g.val, LAMBDA b : b.Currency,
                          LAMBDA b : float(b.Balance))))

Bittrex_place_order(c, primary, secondary, side, amount, price, order_type) ==
  Then(Bittrex_make_symbol(c, primary, secondary), LAMBDA symbol :
  Then(Bittrex_min_order_size(symbol, primary, secondary), LAMBDA lo :
    IF amount < lo.val THEN Raise(lo, "ValueError", "Minimum order size")
    ELSE IF order_type # "limit"
      THEN Raise(lo, "ValueError", "Only limit orders are allowed")
    ELSE Then(Bittrex_make_symbol(lo, primary, secondary), LAMBDA m :
         Then(Bittrex_signed_request(
                m, IF side = "buy" THEN "/market/buylimit"
                   ELSE "/public/selllimit",
                [market |-> m.val, quantity |-> amount, rate |-> price]),
              LAMBDA g : Return(g, g.val.uuid)))))

Bittrex_cancel_order(c, order_id) ==
  Then(Bittrex_signed_request(c, "/market/cancel", [uuid |-> order_id]),
       LAMBDA g : Return(g, PyNone))

\* _order_details that tests CancelInitiated before IsOpen.
Bittrex_order_details_cancel_first(c, order_id) ==
  Then(Bittrex_signed_request(c, "/account/getorder", [uuid |-> order_id]),
       LAMBDA g :
         Return(g, [primary |-> split(g.val.Exchange)[1],
                    secondary |-> split(g.val.Exchange)[2],
                    order_type |-> lower(split(g.val.Type)[1]),
                    side |-> lower(split(g.val.Type)[2]),
                    quantity |-> g.val.Quantity,
                    remaining |-> g.val.QuantityRemaining,
                    price |-> g.val.Price,
                    timestamp_opened |-> Bittrex_timestamp(g.val.Opened),
                    status |-> IF g.val.CancelInitiated THEN "canceled"
                               ELSE IF g.val.IsOpen THEN "active"
                               ELSE "executed"]))

Bittrex_order_details(c, order_id) ==
  Then(Bittrex_signed_request(c, "/account/getorder", [uuid |-> order_id]),
       LAMBDA g :
         Return(g, [primary |-> split(g.val.Exchange)[1],
                    secondary |-> split(g.val.Exchange)[2],
                    order_type |-> lower(split(g.val.Type)[1]),
                    side |-> lower(split(g.val.Type)[2]),
                    quantity |-> g.val.Quantity,
                    remaining |-> g.val.QuantityRemaining,
                    price |-> g.val.Price,
                    timestamp_opened |-> Bittrex_timestamp(g.val.Opened),
                    status |-> IF g.val.IsOpen THEN "active"
                               ELSE IF g.val.CancelInitiated THEN "canceled"
                               ELSE "executed"]))

Bittrex_active_orders(c) ==
  Then(Bittrex_signed_request(c, "/market/getopenorders", EmptyDict),
       LAMBDA g : Return(g, [i \in DOMAIN g.val |-> g.val[i].OrderUuid]))

Bittrex_past_orders(c) ==
  Then(Bittrex_signed_request(c, "/account/getorderhistory", EmptyDict),
       LAMBDA g : Return(g, [i \in DOMAIN g.val |-> g.val[i].OrderUuid]))

(***************************************************************************)
(* core/exchange.py: the Exchange base class.  The abstract methods are    *)
(* those of the subclass the client is an instance of.                     *)
(***************************************************************************)
_balances(c) ==
  IF kind = "Bitfinex" THEN Bitfinex_balances(c) ELSE Bittrex_balances(c)

_place_order(c, primary, secondary, side, amount, price, order_type) ==
  IF kind = "Bitfinex"
    THEN Bitfinex_place_order(c, primary, secondary, side, amount, price,
                              order_type)
    ELSE Bittrex_place_order(c, primary, secondary, side, amount, price,
                             order_type)

_cancel_order(c, order_id) ==
  IF kind = "Bitfinex" THEN Bitfinex_cancel_order(c, order_id)
  ELSE Bittrex_cancel_order(c, order_id)

_order_details(c, order_id) ==
  IF kind = "Bitfinex" THEN Bitfinex_order_details(c, order_id)
  ELSE Bittrex_order_details(c, order_id)

_active_orders(c) ==
  IF kind = "Bitfinex" THEN Bitfinex_active_orders(c)
  ELSE Bittrex_active_orders(c)

_past_orders(c) ==
  IF kind = "Bitfinex" THEN Bitfinex_past_orders(c)
  ELSE Bittrex_past_orders(c)

\* authenticate that sets the flag before it probes the balances.
Exchange_authenticate_eager(c, api_key, api_secret) ==
  IF c.authenticated
    THEN Raise(c, "AuthenticationError", "Already authenticated")
  ELSE TryExcept(_balances([c EXCEPT !.key = Encode(api_key),
                                     !.secret = Encode(api_secret),
                                     !.authenticated = TRUE]),
                 "RequestFailedError",
                 LAMBDA b : Raise(b, "AuthenticationError",
                                  "Invalid credentials"),
                 LAMBDA b : Return(b, PyNone))

\* authenticate that stores the key and the secret before it checks the
\* flag.
Exchange_authenticate_storing(c, api_key, api_secret) ==
  IF c.authenticated
    THEN Raise([c EXCEPT !.key = Encode(api_key),
                         !.secret = Encode(api_secret)],
               "AuthenticationError", "Already authenticated")
  ELSE TryExcept(_balances([c EXCEPT !.key = Encode(api_key),
                                     !.secret = Encode(api_secret)]),
                 "RequestFailedError",
                 LAMBDA b : Raise(b, "AuthenticationError",
                                  "Invalid credentials"),
                 LAMBDA b : [Return(b, PyNone) EXCEPT !.authenticated = TRUE])

Exchange_authenticate(c, api_key, api_secret) ==
  IF c.authenticated
    THEN Raise(c, "AuthenticationError", "Already authenticated")
  ELSE TryExcept(_balances([c EXCEPT !.key = Encode(api_key),
                                     !.secret = Encode(api_secret)]),
                 "RequestFailedError",
                 LAMBDA b : Raise(b, "AuthenticationError",
                                  "Invalid credentials"),
                 LAMBDA b : [Return(b, PyNone) EXCEPT !.authenticated = TRUE])

\* unauthenticate that also forgets the key and the secret.
Exchange_unauthenticate_forgetting(c) ==
  [Return(c, PyNone) EXCEPT !.authenticated = FALSE, !.key = PyNone,
                            !.secret = PyNone]

Exchange_unauthenticate(c) == [Return(c, PyNone) EXCEPT !.authenticated = FALSE]

Exchange_is_authenticated(c) == Return(c, c.authenticated)

NotAuthenticated(c) ==
  Raise(c, "AuthenticationError", "Client not authenticated")

\* Exchange.balances without its check of _authenticated.
Exchange_balances_unchecked(c) == _balances(c)

Exchange_balances(c) ==
  IF ~c.authenticated THEN NotAuthenticated(c) ELSE _balances(c)

\* place_order that lets a market order with a price through.
place_order_unchecked(c, primary, secondary, side, amount, price, order_type) ==
  IF ~c.authenticated THEN NotAuthenticated(c)
  ELSE IF side \notin {"buy", "sell"}
    THEN Raise(c, "ValueError", "side param must be buy or sell")
  ELSE _place_order(c, primary, secondary, side, amount, price, order_type)

Exchange_place_order(c, primary, secondary, side, amount, price, order_type) ==
  IF ~c.authenticated THEN NotAuthenticated(c)
  ELSE IF side \notin {"buy", "sell"}
    THEN Raise(c, "ValueError", "side param must be buy or sell")
  ELSE IF order_type = "market" /\ price # PyNone
    THEN Raise(c, "ValueError", "Do not provide price for market orders")
  ELSE _place_order(c, primary, secondary, side, amount, price, order_type)

Exchange_cancel_order(c, order_id) ==
  IF ~c.authenticated THEN NotAuthenticated(c) ELSE _cancel_order(c, order_id)

Exchange_order_details(c, order_id) ==
  IF ~c.authenticated THEN NotAuthenticated(c)
  ELSE _order_details(c, order_id)

Exchange_active_orders(c) ==
  IF ~c.authenticated THEN NotAuthenticated(c) ELSE _active_orders(c)

Exchange_past_orders(c) ==
  IF ~c.authenticated THEN NotAuthenticated(c) ELSE _past_orders(c)

(***************************************************************************)
(* coinlib/bitfinex.py: BitfinexClient, the raw client of Bitfinex v1.     *)
(***************************************************************************)
\* __init__: the client, or the ValueError it raised.
BitfinexClient_init(c, api_key, api_secret) ==
  IF Truthy(api_key) /\ ~Truthy(api_secret)
    THEN Raise(c, "ValueError", "Must provide API secret")
  ELSE IF Truthy(api_secret) /\ ~Truthy(api_key)
    THEN Raise(c, "ValueError", "Must provide API key")
  ELSE IF api_key # PyNone
    THEN [c EXCEPT !.session = "open", !.authenticated = TRUE,
                   !.key = Encode(api_key), !.secret = Encode(api_secret)]
  ELSE [c EXCEPT !.session = "open", !.authenticated = FALSE]

BitfinexClient_BASE_URL == "https://api.bitfinex.com/v1"

BitfinexClient_sign(c, payload) ==
  IF ~c.authenticated THEN Return(c, NoHeaders)
  ELSE IF c.secret = PyNone THEN Raise(c, "TypeError", "key")
  ELSE Return(c, ("x-bfx-apikey" :> c.key) @@
                 ("x-bfx-payload" :>
                    Msg("b64json", payload.request, payload.nonce, Unset,
                        payload.body)) @@
                 ("x-bfx-signature" :>
                    Hmac(c.secret,
                         Msg("b64json", payload.request, payload.nonce, Unset,
                             payload.body), "sha384")))

BitfinexClient_get_request(c, path, params) ==
  Then(Send(c, Request("GET", BitfinexClient_BASE_URL, path,
                       Params(params, -1, Unset), NoHeaders, EmptyDict)),
       LAMBDA s :
         IF s.val.status = 400
           THEN IF s.val.message = NoMessage
                  THEN Raise(s, "KeyError", "message")
                  ELSE Raise(s, "HTTPError",
                             "400 Bad Request: " \o s.val.message)
         ELSE IF raise_for_status(s.val)
           THEN Raise(s, "HTTPError", HTTPErrorText(s.val))
         ELSE Return(s, s.val.data))

BitfinexClient_post_request(c, path, body) ==
  IF ~c.authenticated
    THEN Raise(c, "NotAuthenticatedError",
               "Must be authenticated to send POST requests")
  ELSE Then(BitfinexClient_sign(c, [body |-> body, nonce |-> nonce,
                                    request |-> "/v1" \o path]),
            LAMBDA h :
              Then(Send(h, Request("POST", BitfinexClient_BASE_URL, path,
                                   NoParams, h.val, EmptyDict)),
                   LAMBDA s :
                     IF raise_for_status(s.val)
                       THEN Raise(s, "HTTPError", HTTPErrorText(s.val))
                     ELSE Return(s, s.val.data)))

\* A method that calls and does not return what the call returned.
Discard(c) == Then(c, LAMBDA s : Return(s, PyNone))

\* symbols that returns the list in the order of the response.
BitfinexClient_symbols_unsorted(c) ==
  Then(BitfinexClient_get_request(c, "/symbols", EmptyDict),
       LAMBDA g : Return(g, g.val))

BitfinexClient_symbols(c) ==
  Then(BitfinexClient_get_request(c, "/symbols", EmptyDict),
       LAMBDA g : Return(g, sorted(g.val, StrRank)))

BitfinexClient_symbols_details(c, symbol) ==
  Then(BitfinexClient_get_request(c, "/symbols_details", EmptyDict),
       LAMBDA g :
         IF Truthy(symbol)
           THEN IF SelectSeq(g.val, LAMBDA x : x.pair = symbol) = << >>
                  THEN Raise(g, "KeyError", "Symbol not found")
                  ELSE Return(g, SelectSeq(g.val,
                                           LAMBDA x : x.pair = symbol)[1])
         ELSE g)

BitfinexClient_ticker(c, symbol) ==
  BitfinexClient_get_request(c, "/pubticker/" \o symbol, EmptyDict)
BitfinexClient_stats(c, symbol) ==
  BitfinexClient_get_request(c, "/stats/" \o symbol, EmptyDict)
BitfinexClient_funding_book(c, currency) ==
  BitfinexClient_get_request(c, "/lendbook/" \o currency,
                             "{limit_bids,limit_asks}")
BitfinexClient_order_book(c, symbol) ==
  BitfinexClient_get_request(c, "/book/" \o symbol,
                             "{limit_bids,limit_asks,group}")
BitfinexClient_trades(c, symbol) ==
  BitfinexClient_get_request(c, "/trades/" \o symbol,
                             "{timestamp,limit_trades}")
BitfinexClient_lends(c, currency) ==
  BitfinexClient_get_request(c, "/lends/" \o currency,
                             "{timestamp,limit_lends}")


BitfinexClient_trading_fees(c) ==
  BitfinexClient_post_request(c, "/account_infos", EmptyDict)
BitfinexClient_account_fees(c) ==
  BitfinexClient_post_request(c, "/account_fees", EmptyDict)
BitfinexClient_summary(c) ==
  BitfinexClient_post_request(c, "/summary", EmptyDict)
BitfinexClient_deposit_address(c) ==
  BitfinexClient_post_request(c, "/deposit/new",
                              "{method,wallet_name,renew}")
BitfinexClient_key_permissions(c) ==
  BitfinexClient_post_request(c, "/key_info", EmptyDict)
BitfinexClient_margin_info(c) ==
  Discard(BitfinexClient_post_request(c, "/margin_infos", EmptyDict))
BitfinexClient_balances(c) ==
  BitfinexClient_post_request(c, "/balances", EmptyDict)
BitfinexClient_transfer(c) ==
  Discard(BitfinexClient_post_request(
            c, "/transfer", "{amount,currency,wallet_from,wallet_to}"))
BitfinexClient_withdraw(c) ==
  Discard(BitfinexClient_post_request(
            c, "/withdraw", "{withdraw_type,walletselected,amount}"))

\* new_order(order), which coinlib/bitfinex.py does not define and its test
\* calls: it posts the order to /order/new and returns the response.
BitfinexClient_new_order(c) ==
  BitfinexClient_post_request(c, "/order/new",
                              "{symbol,amount,price,side,type}")

\* The methods of BitfinexClient by name: those that GET and those that POST.
BitfinexClient_public ==
  {"symbols", "symbols_details", "ticker", "stats", "funding_book",
   "order_book", "trades", "lends"}
BitfinexClient_authenticated ==
  {"trading_fees", "account_fees", "summary", "deposit_address",
   "key_permissions", "margin_info", "balances", "transfer", "withdraw"}

\* client.<m>(...) with symbol or currency argument a.
BitfinexClient_call(c, m, a) ==
  CASE m = "symbols" -> BitfinexClient_symbols(c)
    [] m = "symbols_details" -> BitfinexClient_symbols_details(c, a)
    [] m = "ticker" -> BitfinexClient_ticker(c, a)
    [] m = "stats" -> BitfinexClient_stats(c, a)
    [] m = "funding_book" -> BitfinexClient_funding_book(c, a)
    [] m = "order_book" -> BitfinexClient_order_book(c, a)
    [] m = "trades" -> BitfinexClient_trades(c, a)
    [] m = "lends" -> BitfinexClient_lends(c, a)
    [] m = "trading_fees" -> BitfinexClient_trading_fees(c)
    [] m = "account_fees" -> BitfinexClient_account_fees(c)
    [] m = "summary" -> BitfinexClient_summary(c)
    [] m = "deposit_address" -> BitfinexClient_deposit_address(c)
    [] m = "key_permissions" -> BitfinexClient_key_permissions(c)
    [] m = "margin_info" -> BitfinexClient_margin_info(c)
    [] m = "balances" -> BitfinexClient_balances(c)
    [] m = "transfer" -> BitfinexClient_transfer(c)
    [] m = "withdraw" -> BitfinexClient_withdraw(c)

(***************************************************************************)
(* coinlib/bitfinex_v2.py: BitfinexV2Client, the raw client of Bitfinex v2.*)
(***************************************************************************)
BitfinexV2Client_init(c, api_key, api_secret) ==
  IF Truthy(api_key) /\ ~Truthy(api_secret)
    THEN Raise(c, "ValueError", "Must provide API secret")
  ELSE IF Truthy(api_secret) /\ ~Truthy(api_key)
    THEN Raise(c, "ValueError", "Must provide API key")
  ELSE IF api_key # PyNone
    THEN [c EXCEPT !.session = "open", !.authenticated = TRUE,
                   !.key = Encode(api_key), !.secret = Encode(api_secret)]
  ELSE [c EXCEPT !.session = "open", !.authenticated = FALSE]

BitfinexV2Client_BASE_URL == "https://api.bitfinex.com/"

\* _headers without its check of _authenticated.
BitfinexV2Client_headers_unchecked(c, path, body) ==
  Return(c, ("bfx-apikey" :> c.key) @@ ("bfx-nonce" :> nonce) @@
            ("bfx-signature" :>
               Hmac(c.secret, Msg("utf8", "/api/" \o path, nonce, Unset, body),
                    "sha384")) @@
            ("content-type" :> "application/json"))

BitfinexV2Client_headers(c, path, body) ==
  IF ~c.authenticated THEN Return(c, NoHeaders)
  ELSE IF c.secret = PyNone THEN Raise(c, "TypeError", "key")
  ELSE Return(c, ("bfx-apikey" :> c.key) @@ ("bfx-nonce" :> nonce) @@
                 ("bfx-signature" :>
                    Hmac(c.secret,
                         Msg("utf8", "/api/" \o path, nonce, Unset, body),
                         "sha384")) @@
                 ("content-type" :> "application/json"))

BitfinexV2Client_get_request(c, path, params) ==
  Then(BitfinexV2Client_headers(c, path, EmptyDict),
       LAMBDA h :
         Then(Send(h, Request("GET", BitfinexV2Client_BASE_URL, path,
                              Params(params, -1, Unset), h.val, EmptyDict)),
              LAMBDA s :
                IF raise_for_status(s.val)
                  THEN Raise(s, "HTTPError", HTTPErrorText(s.val))
                ELSE Return(s, s.val.data)))

\* _post_request signing the path and an empty body, as _get_request does.
BitfinexV2Client_post_request_unsigned_body(c, path, params, body) ==
  Then(BitfinexV2Client_headers(c, path, EmptyDict),
       LAMBDA h :
         Then(Send(h, Request("POST", BitfinexV2Client_BASE_URL, path,
                              Params(params, -1, Unset), h.val, body)),
              LAMBDA s :
                IF raise_for_status(s.val)
                  THEN Raise(s, "HTTPError", HTTPErrorText(s.val))
                ELSE Return(s, s.val.data)))

BitfinexV2Client_post_request(c, path, params, body) ==
  Then(BitfinexV2Client_headers(c, path, body),
       LAMBDA h :
         Then(Send(h, Request("POST", BitfinexV2Client_BASE_URL, path,
                              Params(params, -1, Unset), h.val, body)),
              LAMBDA s :
                IF raise_for_status(s.val)
                  THEN Raise(s, "HTTPError", HTTPErrorText(s.val))
                ELSE Return(s, s.val.data)))

\* A decorator that lets every call through.
authenticated_unchecked(c, f) == f

\* The decorator `authenticated`: f is the call as the method leaves it.
authenticated(c, f) ==
  IF ~c.authenticated THEN Raise(c, "NotAuthenticatedError", "") ELSE f


\* The methods of BitfinexV2Client by name: those without and those with the
\* decorator.
BitfinexV2Client_public ==
  {"platform_status", "tickers", "ticker", "book", "stats", "candles",
   "market_average_price"}
BitfinexV2Client_authenticated ==
  {"wallets", "orders", "order_history", "order_trades", "trades",
   "positions", "funding_offers", "funding_offers_history", "funding_loans",
   "funding_loans_history", "funding_credits", "funding_credits_history",
   "funding_trades", "margin_info", "funding_info", "movements",
   "performance", "alerts", "set_alert", "delete_alert", "available_balance"}

\* client.<m>(...) with symbol, key, currency or precision argument a: the
\* body of method m.  The first definition of trades in the class
\* (bitfinex_v2.py lines 83-102) is replaced by the second one (lines
\* 214-222) when the class body is executed, and is no method of the client.
\* book is called with symbol tBTCUSD and precision a, tickers with the
\* list of the one symbol a.
BitfinexV2Client_call(c, m, a) ==
  CASE m = "platform_status" ->
         BitfinexV2Client_get_request(c, "v2/platform/status", EmptyDict)
    [] m = "tickers" ->
         BitfinexV2Client_get_request(c, "v2/tickers", "{symbols}")
    [] m = "ticker" ->
         BitfinexV2Client_get_request(c, "v2/ticker/" \o a, EmptyDict)
    [] m = "book" ->
         IF a \notin {"P0", "P1", "P2", "P3", "R0"}
            THEN Raise(c, "ValueError",
                       "Precision must be one of P0, P1, P2, P3, R0")
         ELSE BitfinexV2Client_get_request(
                c, "v2/book/" \o "tBTCUSD" \o "/" \o a, "{len}")
    [] m = "stats" ->
         BitfinexV2Client_get_request(
           c, "v2/stats1/pos.size:1m:" \o a \o ":long/hist", "{sort}")
    [] m = "candles" ->
         BitfinexV2Client_get_request(
           c, "v2/candles/trade:1m:" \o a \o "/hist", "{limit,sort}")
    [] m = "market_average_price" ->
         BitfinexV2Client_post_request(c, "v2/calc/trade/avg",
                                       "{symbol,amount,period}", EmptyDict)
    [] m = "wallets" ->
         authenticated(c, BitfinexV2Client_post_request(
                            c, "v2/auth/r/wallets", EmptyDict, EmptyDict))
    [] m = "orders" ->
         authenticated(c, BitfinexV2Client_post_request(
                            c, "v2/auth/r/orders", EmptyDict, EmptyDict))
    [] m = "order_history" ->
         authenticated(c, BitfinexV2Client_post_request(
                            c, IF Truthy(a)
                                 THEN "v2/auth/r/orders/" \o a \o "/hist"
                                 ELSE "v2/auth/r/orders/hist",
                            "{start,end,limit}", EmptyDict))
    [] m = "order_trades" ->
         authenticated(c, BitfinexV2Client_post_request(
                            c, "v2/auth/r/order/" \o a \o ":7/trades",
                            EmptyDict, EmptyDict))
    [] m = "trades" ->
         authenticated(c, BitfinexV2Client_post_request(
                            c, IF Truthy(a)
                                 THEN "v2/auth/r/trades/" \o a \o "/hist"
                                 ELSE "v2/auth/r/trades/hist",
                            "{start,end,limit}", EmptyDict))
    [] m = "positions" ->
         authenticated(c, BitfinexV2Client_post_request(
                            c, "v2/auth/r/positions", EmptyDict, EmptyDict))
    [] m = "funding_offers" ->
         authenticated(c, BitfinexV2Client_post_request(
                            c, "v2/auth/r/funding/offers/" \o a,
                            EmptyDict, EmptyDict))
    [] m = "funding_offers_history" ->
         authenticated(c, BitfinexV2Client_post_request(
                            c, "v2/auth/r/funding/offers/" \o a \o "/hist",
                            "{start,end,limit}", EmptyDict))
    [] m = "funding_loans" ->
         authenticated(c, BitfinexV2Client_post_request(
                            c, "v2/auth/r/funding/loans/" \o a,
                            EmptyDict, EmptyDict))
    [] m = "funding_loans_history" ->
         authenticated(c, BitfinexV2Client_post_request(
                            c, "v2/auth/r/funding/loans/" \o a \o "/hist",
                            "{start,end,limit}", EmptyDict))
    [] m = "funding_credits" ->
         authenticated(c, BitfinexV2Client_post_request(
                            c, "v2/auth/r/funding/credits/" \o a,
                            EmptyDict, EmptyDict))
    [] m = "funding_credits_history" ->
         authenticated(c, BitfinexV2Client_post_request(
                            c, "v2/auth/r/funding/credits/" \o a \o "/hist",
                            "{start,end,limit}", EmptyDict))
    [] m = "funding_trades" ->
         authenticated(c, BitfinexV2Client_post_request(
                            c, "v2/auth/r/funding/trades/" \o a \o "/hist",
                            "{start,end,limit}", EmptyDict))
    [] m = "margin_info" ->
         authenticated(c, BitfinexV2Client_post_request(
                            c, "v2/auth/r/info/margin/" \o a,
                            EmptyDict, EmptyDict))
    [] m = "funding_info" ->
         authenticated(c, BitfinexV2Client_post_request(
                            c, "v2/auth/r/info/funding/" \o a,
                            EmptyDict, EmptyDict))
    [] m = "movements" ->
         authenticated(c, BitfinexV2Client_post_request(
                            c, "v2/auth/r/movements/" \o a \o "/hist",
                            EmptyDict, EmptyDict))
    [] m = "performance" ->
         authenticated(c, BitfinexV2Client_post_request(
                             c, "v2/auth/r/stats/perf:1D/hist", EmptyDict,
                             EmptyDict))
    [] m = "alerts" ->
         authenticated(c, BitfinexV2Client_post_request(
                            c, "v2/auth/r/alerts", EmptyDict, "{type}"))
    [] m = "set_alert" ->
         authenticated(c, BitfinexV2Client_post_request(
                            c, "v2/auth/w/alert/set", EmptyDict,
                            "{type,symbol,price}"))
    [] m = "delete_alert" ->
         authenticated(c, Discard(BitfinexV2Client_post_request(
                            c, "v2/auth/w/alert/price:" \o a \o ":5/del",
                            EmptyDict, EmptyDict)))
    [] m = "available_balance" ->
         authenticated(c, Discard(BitfinexV2Client_post_request(
                            c, "v2/auth/calc/order/avail", EmptyDict,
                            "{symbol,dir,rate,type}")))

\* The arguments tried for method m of BitfinexV2Client.
BitfinexV2Client_args(m) ==
  CASE m \in {"order_history", "trades"} -> {PyNone, "tBTCUSD"}
    [] m = "book" -> {"P0", "P9"}
    [] m \in {"margin_info", "funding_info"} -> {"base"}
    [] m = "movements" -> {"BTC"}
    [] OTHER -> {"tBTCUSD"}

(***************************************************************************)
(* The remote: the bodies it returns on success, by client and URL.        *)
(***************************************************************************)
BodiesOf(k, url) ==
  LET \* Bitfinex /symbols
      SymbolLists == {<<"ltcbtc", "btcusd">>}
      \* Bitfinex /symbols_details
      SymbolDetail(p, lo, hi) ==
        [pair |-> p, minimum_order_size |-> lo, maximum_order_size |-> hi]
      SymbolDetailLists == {<< >>, <<SymbolDetail("btcusd", "1", "2")>>}
      \* Bittrex /public/getmarkets
      Market(name, lo) == [MarketName |-> name, MinTradeSize |-> lo]
      MarketLists == {<< >>, <<Market("USD-BTC", "1")>>}
      \* Bitfinex /pubticker/<symbol>
      BitfinexTickers ==
        {[mid |-> "4", bid |-> "3", ask |-> "5", last_price |-> "2",
          low |-> "1", high |-> "6", volume |-> "7.0", timestamp |-> "8"]}
      \* Bitfinex /trades/<symbol>
      BitfinexTrade(t, side) ==
        [tid |-> 1, timestamp |-> t, price |-> "2", amount |-> "1.0",
         exchange |-> "bitfinex", type |-> side]
      BitfinexTrades ==
        {BitfinexTrade("1.0", "buy"), BitfinexTrade("2", "sell")}
      \* Bitfinex /balances
      Wallet(type, currency, amount, available) ==
        [type |-> type, currency |-> currency, amount |-> amount,
         available |-> available]
      BitfinexBalances ==
        {<<Wallet("deposit", "btc", "0", "0")>>,
          <<Wallet("exchange", "btc", "2", "1"),
            Wallet("trading", "usd", "3", "3"),
            Wallet("exchange", "eth", "0", "0"),
            Wallet("exchange", "btc", "3", "2")>>}
      \* Bitfinex /order/new, /orders, /orders/hist
      OrderIds == {7, 8}
      BitfinexOrders == {<< >>, <<[id |-> 7]>>}
      \* Bitfinex /order/status
      BitfinexOrderStatus ==
        {[id |-> 7, symbol |-> "btcusd", price |-> "2", side |-> "buy",
          type |-> "exchange limit", timestamp |-> "1", is_live |-> live,
          is_cancelled |-> cancelled, original_amount |-> "2",
          remaining_amount |-> "1"] : live \in BOOLEAN, cancelled \in BOOLEAN}
      \* Bittrex /public/getmarketsummary
      BittrexTickers ==
        {<<[MarketName |-> "USD-BTC", High |-> "6", Low |-> "1",
            Volume |-> "7.0", Last |-> "2", Bid |-> "3", Ask |-> "5",
            TimeStamp |-> "1970-01-01T00:00:08"]>>}
      \* Bittrex /public/getmarkethistory
      BittrexTrade(t, side) ==
        [Id |-> 1, TimeStamp |-> t, Quantity |-> "1.0", Price |-> "2",
         OrderType |-> side]
      BittrexTrades ==
        {BittrexTrade("1970-01-01T00:00:01.000", "BUY"),
         BittrexTrade("1970-01-01T00:00:02", "SELL")}
      \* Bittrex /account/getbalances
      BittrexBalances ==
        {<< >>,
         <<[Currency |-> "BTC", Balance |-> "2", Available |-> "1"],
           [Currency |-> "USD", Balance |-> "0", Available |-> "0"],
           [Currency |-> "BTC", Balance |-> "3", Available |-> "2"]>>}
      \* Bittrex /market/buylimit, /public/selllimit, /market/getopenorders,
      \* /account/getorderhistory
      OrderUuids == {"u7", "u8"}
      BittrexOrders == {<< >>, <<[OrderUuid |-> "u7"]>>}
      \* Bittrex /account/getorder
      BittrexOrderStatus ==
        {[OrderUuid |-> "u7", Exchange |-> "USD-BTC", Type |-> "LIMIT_BUY",
          Quantity |-> 2, QuantityRemaining |-> 1, Price |-> 2,
          Opened |-> "1970-01-01T00:00:01", IsOpen |-> open,
           CancelInitiated |-> cancelled] :
            open \in BOOLEAN, cancelled \in BOOLEAN}
      \* The bodies of the endpoints that the raw clients return as they are.
      Bodies == {"body1", "body2"}
  IN  CASE k = "Bitfinex" ->
           (CASE url = Bitfinex_BASE_URL \o "/symbols" -> SymbolLists
              [] url = Bitfinex_BASE_URL \o "/symbols_details" ->
                   SymbolDetailLists
               [] url = Bitfinex_BASE_URL \o "/pubticker/btcusd" ->
                    BitfinexTickers
              [] url = Bitfinex_BASE_URL \o "/trades/btcusd" ->
                   SeqsUpTo(BitfinexTrades, MaxTrades)
              [] url = Bitfinex_BASE_URL \o "/balances" -> BitfinexBalances
               [] url = Bitfinex_BASE_URL \o "/order/status" ->
                    BitfinexOrderStatus
              [] url \in {Bitfinex_BASE_URL \o "/orders",
                          Bitfinex_BASE_URL \o "/orders/hist"} -> BitfinexOrders
              [] OTHER -> {[id |-> i, cid |-> 1] : i \in OrderIds})
      [] k = "Bittrex" ->
           (CASE url = Bittrex_BASE_URL \o "/public/getmarkets" -> MarketLists
              [] url = Bittrex_BASE_URL \o "/public/getmarketsummary" ->
                   BittrexTickers
              [] url = Bittrex_BASE_URL \o "/public/getmarkethistory" ->
                   SeqsUpTo(BittrexTrades, MaxTrades)
              [] url = Bittrex_BASE_URL \o "/account/getbalances" ->
                   BittrexBalances
              [] url = Bittrex_BASE_URL \o "/account/getorder" ->
                   BittrexOrderStatus
              [] url \in {Bittrex_BASE_URL \o "/market/getopenorders",
                          Bittrex_BASE_URL \o "/account/getorderhistory"} ->
                   BittrexOrders
              [] OTHER -> {[uuid |-> u] : u \in OrderUuids})
      [] k = "BitfinexClient" ->
           (CASE url = BitfinexClient_BASE_URL \o "/symbols" ->
                   {<<"btcusd">>, <<"ltcbtc", "ethusd", "btcusd">>}
              [] url = BitfinexClient_BASE_URL \o "/symbols_details" ->
                   SymbolDetailLists
              [] url = BitfinexClient_BASE_URL \o "/order/new" ->
                   {[id |-> i, side |-> "buy", avg_execution_price |-> 0] :
                      i \in OrderIds}
              [] OTHER -> Bodies)
      [] OTHER -> Bodies

\* The responses the remote may give to the request call c is blocked on.
ResponsesTo(c) == Responses(kind, BodiesOf(kind, c.reqs[Len(c.reqs)].url))


(***************************************************************************)
(* The state machine.                                                      *)
(***************************************************************************)
Snapshot ==
  [authenticated |-> _authenticated, key |-> _api_key, secret |-> _api_secret,
   session |-> _session, SYMBOLS |-> _SYMBOLS, DETAILS |-> _SYMBOL_DETAILS,
   MARKETS |-> _MARKETS,
   nonce |-> lastNonce]

\* The first state of a client of class k whose constructor ended as c.
Constructed(k, a, c) ==
  /\ kind = k
  /\ _authenticated = c.authenticated
  /\ _api_key = c.key
  /\ _api_secret = c.secret
  /\ _session = c.session
  /\ _SYMBOLS = None
  /\ _SYMBOL_DETAILS = None
  /\ _MARKETS = None
  /\ clock = 0
  /\ lastNonce = -1
  /\ op = "__init__"
  /\ args = a
  /\ outcome = c.exc
  /\ error = c.msg
  /\ result = NoResult
  /\ requests = << >>
  /\ responses = << >>
  /\ pre = [authenticated |-> c.authenticated, key |-> c.key,
            secret |-> c.secret, session |-> c.session, SYMBOLS |-> None,
            DETAILS |-> None, MARKETS |-> None, nonce |-> -1]

\* An object before __init__ has assigned anything.
Blank ==
  [authenticated |-> FALSE, key |-> Unset, secret |-> Unset,
   session |-> Unset, SYMBOLS |-> None, DETAILS |-> None, MARKETS |-> None,
   reqs |-> << >>, resps |-> << >>, nonce |-> -1, inbox |-> << >>,
   exc |-> OK, msg |-> "", val |-> NoResult]

\* Exchange.__init__
Exchange_init(c) == [c EXCEPT !.authenticated = FALSE, !.session = "open"]

\* __enter__ returns the client itself.
Exchange_enter(c) == Return(c, "self")

\* __exit__ closes the session; the three classes define it alike.
Exchange_exit(c) == [Return(c, PyNone) EXCEPT !.session = "closed"]

Init ==
  \/ \E k \in ExchangeKinds : Constructed(k, NoArgs, Exchange_init(Blank))
  \/ \E api_key \in {PyNone, "", "k1"}, api_secret \in {PyNone, "", "s1"} :
       LET a == [api_key |-> api_key, api_secret |-> api_secret]
       IN  \/ Constructed("BitfinexClient", a,
                          BitfinexClient_init(Blank, api_key, api_secret))
           \/ Constructed("BitfinexV2Client", a,
                          BitfinexV2Client_init(Blank, api_key, api_secret))

\* The constructor returned: there is a client to call.
Alive == ~(op = "__init__" /\ outcome # OK)

\* The client has a session and has not closed it.  What a request on a
\* closed requests.Session does is decided by the requests library and not
\* by this code: the caller makes no call on a client after __exit__.
Open == _session = "open"

\* The call ended as c: its effects on the client and its record.
Commit(name, a, c) ==
  /\ _authenticated' = c.authenticated
  /\ _api_key' = c.key
  /\ _api_secret' = c.secret
  /\ _session' = c.session
  /\ _SYMBOLS' = c.SYMBOLS
  /\ _SYMBOL_DETAILS' = c.DETAILS
  /\ _MARKETS' = c.MARKETS
  /\ lastNonce' = c.nonce
  /\ op' = name
  /\ args' = a
  /\ outcome' = c.exc
  /\ error' = c.msg
  /\ result' = c.val
  /\ requests' = c.reqs
  /\ responses' = c.resps
  /\ pre' = Snapshot
  /\ UNCHANGED <<kind, clock>>

With(rs) == [Begin EXCEPT !.inbox = rs]

\* A call of method F: it runs to its end, the remote answering each
\* request it sends (at most three) as it chooses.
Call(name, a, F(_)) ==
  \E c0 \in {F(Begin)} :
    IF c0.exc # Pending THEN Commit(name, a, c0)
    ELSE \E r1 \in ResponsesTo(c0) : \E c1 \in {F(With(<<r1>>))} :
      IF c1.exc # Pending THEN Commit(name, a, c1)
      ELSE \E r2 \in ResponsesTo(c1) : \E c2 \in {F(With(<<r1, r2>>))} :
        IF c2.exc # Pending THEN Commit(name, a, c2)
        ELSE \E r3 \in ResponsesTo(c2) : \E c3 \in {F(With(<<r1, r2, r3>>))} :
          Commit(name, a, c3)

\* Arguments of the calls.
\* authenticate(api_key, api_secret)
Credentials == {<<"k1", "s1">>, <<"k2", "s1">>, <<"", PyNone>>}
\* place_order(primary, secondary, side, amount, price, order_type); the
\* pair USD/BTC trades in sizes 1 to 2 where it is listed.
Orders ==
  {<<"USD", "BTC", "buy", 1, "5", "limit">>,
   <<"USD", "BTC", "sell", 2, "5", "limit">>,
   <<"USD", "BTC", "buy", 1, PyNone, "market">>,
   <<"USD", "BTC", "sell", 1, "5", "market">>,
   <<"USD", "BTC", "hold", 1, "5", "limit">>,
   <<"USD", "BTC", "buy", 0, "5", "limit">>,
   <<"USD", "BTC", "sell", 3, "5", "limit">>,
   <<"usd", "eth", "buy", 1, "5", "limit">>}
\* ticker(primary, secondary), trades(primary, secondary)
Pairs == {<<"USD", "BTC">>, <<"usd", "eth">>}
OrderIdArgs == IF kind = "Bitfinex" THEN {7} ELSE {"u7"}


\* The abstract market-data methods, by subclass.
Exchange_pairs(c) ==
  IF kind = "Bitfinex" THEN Bitfinex_pairs(c) ELSE Bittrex_pairs(c)
Exchange_ticker(c, primary, secondary) ==
  IF kind = "Bitfinex" THEN Bitfinex_ticker(c, primary, secondary)
  ELSE Bittrex_ticker(c, primary, secondary)
Exchange_trades(c, primary, secondary) ==
  IF kind = "Bitfinex" THEN Bitfinex_trades(c, primary, secondary)
  ELSE Bittrex_trades(c, primary, secondary)

authenticate ==
  /\ kind \in ExchangeKinds
  /\ Open
  /\ \E a \in Credentials :
       Call("authenticate", [api_key |-> a[1], api_secret |-> a[2]],
            LAMBDA c : Exchange_authenticate(c, a[1], a[2]))

unauthenticate ==
  /\ kind \in ExchangeKinds
  /\ Open
  /\ Call("unauthenticate", NoArgs, Exchange_unauthenticate)

is_authenticated ==
  /\ kind \in ExchangeKinds
  /\ Open
  /\ Call("is_authenticated", NoArgs, Exchange_is_authenticated)

pairs ==
  /\ kind \in ExchangeKinds
  /\ Open
  /\ Call("pairs", NoArgs, Exchange_pairs)

ticker ==
  /\ kind \in ExchangeKinds
  /\ Open
  /\ \E p \in Pairs :
       Call("ticker", [primary |-> p[1], secondary |-> p[2]],
            LAMBDA c : Exchange_ticker(c, p[1], p[2]))

trades ==
  /\ kind \in ExchangeKinds
  /\ Open
  /\ \E p \in Pairs :
       Call("trades", [primary |-> p[1], secondary |-> p[2]],
            LAMBDA c : Exchange_trades(c, p[1], p[2]))

balances ==
  /\ kind \in ExchangeKinds
  /\ Open
  /\ Call("balances", NoArgs, Exchange_balances)

place_order ==
  /\ kind \in ExchangeKinds
  /\ Open
  /\ \E o \in Orders :
       Call("place_order",
            [primary |-> o[1], secondary |-> o[2], side |-> o[3],
             amount |-> o[4], price |-> o[5], order_type |-> o[6]],
            LAMBDA c : Exchange_place_order(c, o[1], o[2], o[3], o[4], o[5],
                                            o[6]))

cancel_order ==
  /\ kind \in ExchangeKinds
  /\ Open
  /\ \E order_id \in OrderIdArgs :
       Call("cancel_order", [order_id |-> order_id],
            LAMBDA c : Exchange_cancel_order(c, order_id))

order_details ==
  /\ kind \in ExchangeKinds
  /\ Open
  /\ \E order_id \in OrderIdArgs :
       Call("order_details", [order_id |-> order_id],
            LAMBDA c : Exchange_order_details(c, order_id))

active_orders ==
  /\ kind \in ExchangeKinds
  /\ Open
  /\ Call("active_orders", NoArgs, Exchange_active_orders)

past_orders ==
  /\ kind \in ExchangeKinds
  /\ Open
  /\ Call("past_orders", NoArgs, Exchange_past_orders)

\* A call of a method of BitfinexClient.
BitfinexClient_method ==
  /\ kind = "BitfinexClient"
  /\ Open
  /\ \E m \in BitfinexClient_public \cup BitfinexClient_authenticated,
        a \in {"btcusd"} :
       Call(m, [symbol |-> a], LAMBDA c : BitfinexClient_call(c, m, a))

\* client.new_order(Order(...))
new_order ==
  /\ kind = "BitfinexClient"
  /\ Open
  /\ Call("new_order", [symbol |-> "btcusd"], BitfinexClient_new_order)

\* A call of a method of BitfinexV2Client.
BitfinexV2Client_method ==
  /\ kind = "BitfinexV2Client"
  /\ Open
  /\ \E m \in BitfinexV2Client_public \cup BitfinexV2Client_authenticated :
       \E a \in BitfinexV2Client_args(m) :
         Call(m, [symbol |-> a], LAMBDA c : BitfinexV2Client_call(c, m, a))

\* with client: ... enters the context, and leaving it closes the session.
__enter__ ==
  /\ Open
  /\ Call("__enter__", NoArgs, Exchange_enter)

__exit__ ==
  /\ Alive
  /\ Call("__exit__", NoArgs, Exchange_exit)

\* time.time() moves: the wall clock advances, or is set (NTP, the operator).
Tick ==
  /\ Alive
  /\ \E t \in 0..MaxClock : t # clock /\ clock' = t
  /\ UNCHANGED <<kind, _authenticated, _api_key, _api_secret, _session,
                 _SYMBOLS, _SYMBOL_DETAILS, _MARKETS, lastNonce, op, args,
                 outcome, error, result, requests, responses, pre>>

Next ==
  \/ authenticate
  \/ unauthenticate
  \/ is_authenticated
  \/ pairs
  \/ ticker
  \/ trades
  \/ balances
  \/ place_order
  \/ cancel_order
  \/ order_details
  \/ active_orders
  \/ past_orders
  \/ BitfinexClient_method
  \/ new_order
  \/ BitfinexV2Client_method
  \/ __enter__
  \/ __exit__
  \/ Tick

Spec == Init /\ [][Next]_vars

\* Every call runs to its end within three requests.
TypeOK ==
  /\ outcome # Pending
  /\ Len(requests) <= 3
  /\ Len(responses) = Len(requests)

(***************************************************************************)
(* Properties.  Each is a statement about the record of the last call:     *)
(* op, args, outcome, result, requests and responses, and pre, the state   *)
(* of the client when the call was made.                                   *)
(***************************************************************************)
\* The methods of Exchange that check _authenticated first.
AuthenticatedOps ==
  {"balances", "place_order", "cancel_order", "order_details",
   "active_orders", "past_orders"}

\* C1: on an Exchange client that is not authenticated, whatever calls came
\* before, each of balances, place_order, cancel_order, order_details,
\* active_orders and past_orders raises AuthenticationError and sends no
\* HTTP request.
C1_UnauthenticatedCallFailsFast ==
  (kind \in ExchangeKinds /\ op \in AuthenticatedOps /\ ~pre.authenticated)
    => (outcome = "AuthenticationError" /\ requests = << >>)

\* A client that holds a key from an earlier authenticate call and is not
\* authenticated is refused an order.
C1_Witness ==
  /\ kind \in ExchangeKinds
  /\ op = "place_order"
  /\ ~pre.authenticated
  /\ pre.key = "k1"
  /\ outcome = "AuthenticationError"
  /\ requests = << >>

\* C2: on a BitfinexClient or BitfinexV2Client constructed without
\* credentials (api_key is None), every authenticated endpoint method (v1:
\* the methods that POST, v2: the methods of the v2/auth/ paths) raises
\* NotAuthenticatedError and sends no HTTP request.
C2_RawClientWithoutCredentials ==
  (/\ \/ kind = "BitfinexClient" /\ op \in BitfinexClient_authenticated
      \/ kind = "BitfinexV2Client" /\ op \in BitfinexV2Client_authenticated
   /\ pre.key = Unset
   /\ ~pre.authenticated)
    => (outcome = "NotAuthenticatedError" /\ requests = << >>)

\* BitfinexClient().balances() was refused.
C2_Witness ==
  /\ kind = "BitfinexClient"
  /\ op = "balances"
  /\ pre.key = Unset
  /\ outcome = "NotAuthenticatedError"
  /\ requests = << >>


\* The paths that Bittrex requests through _signed_request.
Bittrex_signed_paths ==
  {"/account/getbalances", "/market/buylimit", "/public/selllimit",
   "/market/cancel", "/account/getorder", "/market/getopenorders",
   "/account/getorderhistory"}

\* Request req of the last call went to an authenticated endpoint.
AuthenticatedEndpoint(req) ==
  CASE kind \in {"Bitfinex", "BitfinexClient"} -> req.method = "POST"
    [] kind = "Bittrex" -> req.path \in Bittrex_signed_paths
    [] kind = "BitfinexV2Client" -> op \in BitfinexV2Client_authenticated

\* The signature of req is the HMAC, under the stored secret, of the
\* message made of the path, the nonce and the body that req itself carries.
SignatureMatches(req) ==
  CASE kind \in {"Bitfinex", "BitfinexClient"} ->
         /\ DOMAIN req.headers =
              {"x-bfx-apikey", "x-bfx-payload", "x-bfx-signature"}
         /\ req.headers["x-bfx-apikey"] = _api_key
         /\ req.headers["x-bfx-payload"].enc = "b64json"
         /\ req.headers["x-bfx-payload"].request = "/v1" \o req.path
         /\ req.headers["x-bfx-payload"].nonce >= 0
         /\ req.headers["x-bfx-signature"] =
              Hmac(_api_secret, req.headers["x-bfx-payload"], "sha384")
    [] kind = "BitfinexV2Client" ->
         /\ DOMAIN req.headers =
              {"bfx-apikey", "bfx-nonce", "bfx-signature", "content-type"}
         /\ req.headers["bfx-apikey"] = _api_key
         /\ req.headers["bfx-nonce"] >= 0
         /\ req.headers["bfx-signature"] =
              Hmac(_api_secret,
                   Msg("utf8", "/api/" \o req.path, req.headers["bfx-nonce"],
                       Unset, req.json),
                   "sha384")
    [] kind = "Bittrex" ->
         /\ DOMAIN req.headers = {"apisign"}
         /\ req.params.apikey = _api_key
         /\ req.params.nonce >= 0
         /\ req.headers["apisign"] =
              Hmac(_api_secret,
                   Msg("utf8", req.url, req.params.nonce, req.params.apikey,
                       req.params.q),
                   "sha512")

\* C3: every request that a client holding a key and a secret sends to an
\* authenticated endpoint carries the HMAC, under that secret, of the
\* canonical message of the same request: its path, its nonce and its body.
C3_SignatureCoversTheRequest ==
  (_api_key # Unset /\ Truthy(_api_key) /\ Truthy(_api_secret))
    => \A i \in DOMAIN requests :
         AuthenticatedEndpoint(requests[i]) => SignatureMatches(requests[i])

\* Bittrex sent a sell order, signed.
C3_Witness ==
  /\ kind = "Bittrex"
  /\ op = "place_order"
  /\ Truthy(_api_key)
  /\ Truthy(_api_secret)
  /\ \E i \in DOMAIN requests :
       /\ requests[i].path = "/public/selllimit"
       /\ SignatureMatches(requests[i])


\* The nonce of the signed request sent last before request i of the last
\* call: in that call, or else in an earlier call (-1 when there is none).
NonceBefore(i) ==
  IF \E j \in 1..(i - 1) : NonceOf(requests[j]) >= 0
    THEN NonceOf(requests[CHOOSE j \in 1..(i - 1) :
                            /\ NonceOf(requests[j]) >= 0
                            /\ \A k \in (j + 1)..(i - 1) :
                                 NonceOf(requests[k]) < 0])
  ELSE pre.nonce

\* C4: of two signed requests that a client sends one after the other, the
\* later carries the strictly greater nonce.
C4_NoncesStrictlyIncrease ==
  \A i \in DOMAIN requests :
    (NonceOf(requests[i]) >= 0 /\ NonceBefore(i) >= 0)
      => NonceOf(requests[i]) > NonceBefore(i)

\* The remote rejected response r: an HTTP error status or, on Bittrex, an
\* envelope with success = false.
Rejected(r) == r.status >= 400 \/ (kind = "Bittrex" /\ ~r.success)

\* C5: when the remote rejects the probe of authenticate, authenticate
\* raises AuthenticationError and the client stays unauthenticated.
C5_RejectedProbeIsAuthenticationError ==
  (/\ kind \in ExchangeKinds
   /\ op = "authenticate"
   /\ responses # << >>
   /\ Rejected(responses[Len(responses)]))
    => (outcome = "AuthenticationError" /\ ~_authenticated)

\* C6: every failure that the remote reports to a call of an Exchange
\* client other than authenticate is raised as RequestFailedError.
C6_RemoteFailureIsRequestFailedError ==
  (/\ kind \in ExchangeKinds
   /\ op # "authenticate"
   /\ responses # << >>
   /\ Rejected(responses[Len(responses)]))
    => outcome = "RequestFailedError"


\* The client held a key and a secret when the last call was made.
HeldCredentials == Truthy(pre.key) /\ Truthy(pre.secret) /\ pre.key # Unset

\* The last call changed the stored key or the stored secret.
CredentialsChanged == _api_key # pre.key \/ _api_secret # pre.secret

\* C7, as claimed: once a client holds a key and a secret, no operation
\* changes the stored key or secret.
C7_CredentialsNeverChange == HeldCredentials => ~CredentialsChanged

\* C7, amended: the stored key and secret of a client that holds them are
\* changed only by an authenticate call made while the client is not
\* authenticated, which stores its own arguments whether or not the probe
\* succeeds; every other call leaves them as they are.
C7_OnlyAuthenticateReplacesCredentials ==
  HeldCredentials =>
    IF kind \in ExchangeKinds /\ op = "authenticate" /\ ~pre.authenticated
      THEN /\ _api_key = Encode(args.api_key)
           /\ _api_secret = Encode(args.api_secret)
      ELSE ~CredentialsChanged

\* authenticate replaced the key of a client that held one.
C7_Witness ==
  /\ HeldCredentials
  /\ op = "authenticate"
  /\ _api_key # pre.key
  /\ Truthy(_api_key)

\* The timestamp of a raw trade, as the exchange writes it, as a number.
RawTimestamp(x) ==
  IF kind = "Bitfinex" THEN float(x.timestamp)
  ELSE Bittrex_timestamp(x.TimeStamp)

\* The normalized record of raw trade x.
Normalized(x) ==
  IF kind = "Bitfinex"
    THEN [quantity |-> float(x.amount), price |-> float(x.price),
          side |-> x.type, timestamp |-> RawTimestamp(x)]
    ELSE [quantity |-> float(x.Quantity), price |-> float(x.Price),
          side |-> lower(x.OrderType), timestamp |-> RawTimestamp(x)]

\* The raw trades that the last call received.
RawTrades == responses[Len(responses)].data

\* C8: trades returns one normalized record for each raw trade received (a
\* permutation of them), ordered by timestamp, most recent first.
C8_TradesMostRecentFirst ==
  (kind \in ExchangeKinds /\ op = "trades" /\ outcome = OK)
    => /\ \E p \in [DOMAIN result -> DOMAIN RawTrades] :
            /\ \A i, j \in DOMAIN result : p[i] = p[j] => i = j
            /\ \A j \in DOMAIN RawTrades : \E i \in DOMAIN result : p[i] = j
            /\ \A i \in DOMAIN result : result[i] = Normalized(RawTrades[p[i]])
       /\ \A i, j \in DOMAIN result :
            i < j => result[i].timestamp >= result[j].timestamp

\* The exchange listed an older trade before a more recent one, and trades
\* returned the more recent one first.
C8_Witness ==
  /\ kind \in ExchangeKinds
  /\ op = "trades"
  /\ outcome = OK
  /\ Len(RawTrades) = 2
  /\ RawTimestamp(RawTrades[1]) < RawTimestamp(RawTrades[2])
  /\ result = <<Normalized(RawTrades[2]), Normalized(RawTrades[1])>>


\* No request of the last call carried a header.
NoAuthenticationHeaders ==
  \A i \in DOMAIN requests : DOMAIN requests[i].headers = {}

\* C9, as claimed: every request that a client sends while it is not
\* authenticated carries no authentication header.
C9_UnauthenticatedRequestsUnsigned ==
  ~pre.authenticated => NoAuthenticationHeaders

\* C9, amended: every request that a client sends while it is not
\* authenticated carries no authentication header, except the probe of
\* authenticate, the only request such a call sends.
C9_OnlyTheProbeIsSigned ==
  ~pre.authenticated =>
    IF kind \in ExchangeKinds /\ op = "authenticate"
      THEN Len(requests) <= 1
           /\ \A i \in DOMAIN requests : AuthenticatedEndpoint(requests[i])
      ELSE NoAuthenticationHeaders

\* A client that holds a key and a secret and is not authenticated sent
\* the requests of ticker, unsigned.
C9_Witness ==
  /\ ~pre.authenticated
  /\ HeldCredentials
  /\ op = "ticker"
  /\ outcome = OK
  /\ Len(requests) >= 1
  /\ NoAuthenticationHeaders

\* The requests that the last call had to send for the symbol or market
\* list and, for an order on Bitfinex, for the symbol details: one for
\* each that the client had not stored yet.
ListRequests ==
  IF kind = "Bitfinex"
    THEN (IF pre.SYMBOLS = None THEN 1 ELSE 0)
         + (IF op = "place_order" /\ pre.DETAILS = None THEN 1 ELSE 0)
    ELSE (IF pre.MARKETS = None THEN 1 ELSE 0)

\* C10, as claimed: every call of a public method of an exchange client
\* sends exactly one HTTP request.
C10_OneRequestPerCall ==
  (/\ kind \in ExchangeKinds
   /\ op \in AuthenticatedOps \cup {"pairs", "ticker", "trades"})
    => Len(requests) = 1

\* C10, amended: a call that returns sends exactly one request to the
\* endpoint of its method, after the requests for the lists the client has
\* not stored yet; pairs sends the request for the list only.
C10_OneEndpointRequestPerCall ==
  (kind \in ExchangeKinds /\ outcome = OK)
    => CASE op \in {"balances", "cancel_order", "order_details",
                    "active_orders", "past_orders", "authenticate"} ->
              Len(requests) = 1
         [] op \in {"ticker", "trades", "place_order"} ->
              Len(requests) = ListRequests + 1
         [] op = "pairs" -> Len(requests) = ListRequests
         [] OTHER -> requests = << >>

\* The first order on Bitfinex took three requests.
C10_Witness ==
  /\ kind = "Bitfinex"
  /\ op = "place_order"
  /\ outcome = OK
  /\ Len(requests) = 3
  /\ requests[3].path = "/order/new"

\* C11: the session is created by the constructor, is open for every
\* request of every call made before __exit__ and is left open by the call;
\* __exit__ closes it, and no other method does.
C11_SessionOpenUntilExit ==
  /\ (op = "__init__" /\ outcome = OK) => _session = "open"
  /\ op = "__exit__" => _session = "closed"
  /\ op \notin {"__init__", "__exit__"} =>
       /\ pre.session = "open"
       /\ \A i \in DOMAIN requests : requests[i].session = "open"
       /\ _session = "open"

\* A client that had sent the requests for both lists of Bitfinex and for an
\* order left its context, and the session was closed then.
C11_Witness ==
  /\ kind = "Bitfinex"
  /\ op = "__exit__"
  /\ pre.SYMBOLS # None
  /\ pre.DETAILS # None
  /\ pre.session = "open"
  /\ _session = "closed"

\* The last response that the last call received.
LastResponse == responses[Len(responses)]

\* The text of the raised error includes the remote message m: it is m, or
\* m after the prefix that BitfinexClient._get_request writes.
ErrorMentions(m) == error \in {m, "400 Bad Request: " \o m}

\* C12: a call whose request is answered with a 4xx or 5xx status raises
\* and returns no value, the text of the error includes the message of
\* the response body when there is one, and a GET of BitfinexClient raises
\* HTTPError, on status 400 with the text 400 Bad Request: and the message.
C12_RemoteErrorRaisedWithMessage ==
  (responses # << >> /\ LastResponse.status >= 400)
    => /\ outcome # OK
       /\ result = NoResult
       /\ LastResponse.message # NoMessage
            => ErrorMentions(LastResponse.message)
       /\ (kind = "BitfinexClient" /\ requests[Len(requests)].method = "GET")
            => /\ outcome = "HTTPError"
               /\ LastResponse.status = 400
                    => error = "400 Bad Request: " \o LastResponse.message

\* The flags of the order in the last response: reported live or open, and
\* reported cancelled.
ReportedLive ==
  IF kind = "Bitfinex" THEN LastResponse.data.is_live
  ELSE LastResponse.data.IsOpen
ReportedCancelled ==
  IF kind = "Bitfinex" THEN LastResponse.data.is_cancelled
  ELSE LastResponse.data.CancelInitiated

\* C13: the status that order_details returns is active when the exchange
\* reports the order live or open, canceled when it reports it not live and
\* cancelled, and executed otherwise, on Bitfinex and on Bittrex.
C13_OrderStatusFromFlags ==
  (kind \in ExchangeKinds /\ op = "order_details" /\ outcome = OK)
    => result.status = IF ReportedLive THEN "active"
                       ELSE IF ReportedCancelled THEN "canceled"
                       ELSE "executed"

\* Bittrex reported an open order with its cancellation initiated, and the
\* order is active.
C13_Witness ==
  /\ kind = "Bittrex"
  /\ op = "order_details"
  /\ outcome = OK
  /\ ReportedLive
  /\ ReportedCancelled
  /\ result.status = "active"

\* The order of the last call has a side other than buy and sell, or is a
\* market order with a price.
InvalidOrder ==
  \/ args.side \notin {"buy", "sell"}
  \/ args.order_type = "market" /\ args.price # PyNone

\* C14: place_order with a side other than buy and sell, or with order type
\* market and a price, raises ValueError on an authenticated client and
\* AuthenticationError on a client that is not authenticated, and sends no
\* HTTP request in either case.
C14_InvalidOrderRejectedUnsent ==
  (kind \in ExchangeKinds /\ op = "place_order" /\ InvalidOrder)
    => /\ requests = << >>
       /\ outcome = IF pre.authenticated THEN "ValueError"
                    ELSE "AuthenticationError"

\* An authenticated client refused a market order that names a price.
C14_Witness ==
  /\ kind \in ExchangeKinds
  /\ op = "place_order"
  /\ pre.authenticated
  /\ args.order_type = "market"
  /\ args.price # PyNone
  /\ outcome = "ValueError"
  /\ requests = << >>

BalancesCall == kind \in ExchangeKinds /\ op = "balances" /\ outcome = OK
ExchangeWallet(b) == kind = "Bitfinex" => b.type = "exchange"
Funded(b) == kind = "Bitfinex" => float(b.amount) > 0
CurrencyCode(b) == IF kind = "Bitfinex" THEN upper(b.currency) ELSE b.Currency
TotalAmount(b) ==
  IF kind = "Bitfinex" THEN float(b.amount) ELSE float(b.Balance)
AvailableAmount(b) ==
  IF kind = "Bitfinex" THEN float(b.available) ELSE float(b.Available)

\* C16 as stated: every amount that balances() returns is the available
\* amount that the exchange reported for that currency, in an exchange
\* wallet when the exchange is Bitfinex.
C16_BalancesAreAvailableAmounts ==
  BalancesCall =>
    \A k \in DOMAIN result :
      \E i \in DOMAIN LastResponse.data :
        /\ ExchangeWallet(LastResponse.data[i])
        /\ CurrencyCode(LastResponse.data[i]) = k
        /\ result[k] = AvailableAmount(LastResponse.data[i])

\* C16, amended: balances() maps the currency code (upper-cased for
\* Bitfinex) to the total amount, field amount of Bitfinex and Balance of
\* Bittrex, of the last entry of that currency that counts. Every entry of
\* Bittrex counts; of Bitfinex, the wallets of type exchange whose amount
\* is positive.
C16_BalancesAreTotalAmounts ==
  BalancesCall =>
    /\ \A i \in DOMAIN LastResponse.data :
         (ExchangeWallet(LastResponse.data[i]) /\ Funded(LastResponse.data[i]))
           => CurrencyCode(LastResponse.data[i]) \in DOMAIN result
    /\ \A k \in DOMAIN result :
         \E i \in DOMAIN LastResponse.data :
           /\ ExchangeWallet(LastResponse.data[i])
           /\ Funded(LastResponse.data[i])
           /\ CurrencyCode(LastResponse.data[i]) = k
           /\ result[k] = TotalAmount(LastResponse.data[i])
           /\ \A j \in DOMAIN LastResponse.data :
                (/\ j > i
                 /\ ExchangeWallet(LastResponse.data[j])
                 /\ Funded(LastResponse.data[j]))
                  => CurrencyCode(LastResponse.data[j]) # k

\* Bitfinex reported an exchange wallet of 3 btc of which 2 are available,
\* a trading wallet in usd and an empty exchange wallet in eth, and
\* balances() returned 3 for BTC and nothing else.
C16_Witness ==
  /\ kind = "Bitfinex"
  /\ BalancesCall
  /\ \E i \in DOMAIN LastResponse.data :
       /\ LastResponse.data[i].type = "exchange"
       /\ LastResponse.data[i].amount = "3"
       /\ LastResponse.data[i].available = "2"
  /\ \E i \in DOMAIN LastResponse.data : LastResponse.data[i].type = "trading"
  /\ DOMAIN result = {"BTC"}
  /\ result["BTC"] = 3

\* The raw ticker that ticker() was answered with: the body of Bitfinex, the
\* first market summary of Bittrex.
TickerCall == kind \in ExchangeKinds /\ op = "ticker" /\ outcome = OK
RawTicker ==
  IF kind = "Bitfinex" THEN LastResponse.data ELSE LastResponse.data[1]
TickerKeys == {"ask", "bid", "last", "high", "low", "volume", "timestamp"}

\* C17: ticker of Bitfinex and of Bittrex returns a record of exactly the
\* keys ask, bid, last, high, low, volume and timestamp, each the number of
\* the corresponding field of the raw ticker: last_price for last of
\* Bitfinex, Last for last of Bittrex.
C17_TickerSevenKeys ==
  TickerCall =>
    /\ DOMAIN result = TickerKeys
    /\ kind = "Bitfinex" =>
         /\ result.ask = float(RawTicker.ask)
         /\ result.bid = float(RawTicker.bid)
         /\ result.last = float(RawTicker.last_price)
         /\ result.high = float(RawTicker.high)
         /\ result.low = float(RawTicker.low)
         /\ result.volume = float(RawTicker.volume)
         /\ result.timestamp = float(RawTicker.timestamp)
    /\ kind = "Bittrex" =>
         /\ result.ask = float(RawTicker.Ask)
         /\ result.bid = float(RawTicker.Bid)
         /\ result.last = float(RawTicker.Last)
         /\ result.high = float(RawTicker.High)
         /\ result.low = float(RawTicker.Low)
         /\ result.volume = float(RawTicker.Volume)
         /\ result.timestamp = Bittrex_timestamp(RawTicker.TimeStamp)

\* Bitfinex answered with a ticker of eight fields, mid among them, all of
\* different values, and ticker returned the seven numbers.
C17_Witness ==
  /\ kind = "Bitfinex"
  /\ TickerCall
  /\ "mid" \in DOMAIN RawTicker
  /\ RawTicker.mid # RawTicker.last_price
  /\ result = [ask |-> 5, bid |-> 3, last |-> 2, high |-> 6, low |-> 1,
               volume |-> 7, timestamp |-> 8]

\* The market-data methods of BitfinexV2Client that C18 names, and the calls
\* of them whose arguments the method accepts (book checks its precision).
MarketDataMethods ==
  {"platform_status", "tickers", "ticker", "trades", "book", "stats",
   "candles"}
AcceptedArguments ==
  op = "book" => args.symbol \in {"P0", "P1", "P2", "P3", "R0"}

\* C18: on a BitfinexV2Client constructed without credentials, each of
\* platform_status, tickers, ticker, trades, book, stats and candles sends
\* one GET request, returns the body of a 2xx response unchanged and never
\* raises NotAuthenticatedError.
C18_MarketDataNeedsNoCredentials ==
  (/\ kind = "BitfinexV2Client"
   /\ ~pre.authenticated
   /\ op \in MarketDataMethods
   /\ AcceptedArguments)
    => /\ outcome # "NotAuthenticatedError"
       /\ Len(requests) = 1
       /\ requests[1].method = "GET"
       /\ LastResponse.status \in 200..299
            => (outcome = OK /\ result = LastResponse.data)

\* A call of an authenticated endpoint method of a raw client constructed
\* with a key and a secret, answered with a 2xx status.
AnsweredAuthenticatedCall ==
  /\ \/ kind = "BitfinexClient" /\ op \in BitfinexClient_authenticated
     \/ kind = "BitfinexV2Client" /\ op \in BitfinexV2Client_authenticated
  /\ Truthy(_api_key)
  /\ Truthy(_api_secret)
  /\ responses # << >>
  /\ LastResponse.status \in 200..299

\* C19: on a raw client constructed with credentials, each authenticated
\* endpoint method returns the decoded body of the 2xx response to its
\* request, unchanged: transfer and withdraw of BitfinexClient and
\* available_balance of BitfinexV2Client among them.
C19_AuthenticatedMethodsReturnBody ==
  AnsweredAuthenticatedCall => (outcome = OK /\ result = LastResponse.data)

\* The number of times x occurs in the list xs.
Occurrences(xs, x) == Cardinality({i \in DOMAIN xs : xs[i] = x})

\* C20: symbols() of BitfinexClient returns the symbols of the response in
\* ascending order, each as many times as the response has it and no
\* other, whatever the order of the response.
C20_SymbolsSorted ==
  (kind = "BitfinexClient" /\ op = "symbols" /\ outcome = OK)
    => /\ \A i, j \in DOMAIN result :
            i < j => StrRank(result[i]) <= StrRank(result[j])
       /\ Len(result) = Len(LastResponse.data)
       /\ \A i \in DOMAIN LastResponse.data :
            Occurrences(result, LastResponse.data[i])
              = Occurrences(LastResponse.data, LastResponse.data[i])

\* The exchange listed ltcbtc, ethusd, btcusd and symbols() returned
\* btcusd, ethusd, ltcbtc.
C20_Witness ==
  /\ kind = "BitfinexClient"
  /\ op = "symbols"
  /\ outcome = OK
  /\ LastResponse.data = <<"ltcbtc", "ethusd", "btcusd">>
  /\ result = <<"btcusd", "ethusd", "ltcbtc">>

\* A second client of the same class, just constructed, that makes the last
\* call with the same arguments: it is answered with symbol (or market)
\* list s and then with the very response that the last call received.
ListUrl ==
  IF kind = "Bitfinex" THEN Bitfinex_BASE_URL \o "/symbols"
  ELSE Bittrex_BASE_URL \o "/public/getmarkets"
OtherClient(s) ==
  [Exchange_init(Blank) EXCEPT
     !.inbox = <<Response(200, TRUE, NoMessage, s), LastResponse>>]
OtherCall(s) ==
  IF op = "ticker"
    THEN Exchange_ticker(OtherClient(s), args.primary, args.secondary)
  ELSE Exchange_trades(OtherClient(s), args.primary, args.secondary)

\* C21: the ticker or the trades that a client returns, whatever its state
\* (authenticated or not, symbols cached or not, after any calls), are those
\* that a client just constructed returns for the same pair from the same
\* raw response.
C21_NormalizationStateIndependent ==
  (kind \in ExchangeKinds /\ op \in {"ticker", "trades"} /\ outcome = OK)
    => \A s \in BodiesOf(kind, ListUrl) :
         OtherCall(s).exc = OK => OtherCall(s).val = result

\* An authenticated client with its symbols cached returned two trades from
\* one request, the same two that a new client returns after fetching the
\* symbols first.
C21_Witness ==
  /\ kind \in ExchangeKinds
  /\ op = "trades"
  /\ outcome = OK
  /\ pre.authenticated
  /\ Len(requests) = 1
  /\ Len(result) = 2
  /\ result[1] # result[2]
  /\ \E s \in BodiesOf(kind, ListUrl) :
       /\ OtherCall(s).exc = OK
       /\ Len(OtherCall(s).reqs) = 2
       /\ OtherCall(s).val = result

\* The last call sent one request, the probe of the balances endpoint, and
\* the remote accepted it.
ProbeSucceeded ==
  /\ Len(requests) = 1
  /\ requests[1].path = IF kind = "Bitfinex" THEN "/balances"
                        ELSE "/account/getbalances"
  /\ ~Rejected(LastResponse)

\* C22: the flag that is_authenticated() returns is False on a new Exchange
\* client, turns True only in an authenticate call whose probe succeeded,
\* stays True through every call other than unauthenticate, and is False
\* after unauthenticate.
C22_AuthenticatedLifecycle ==
  kind \in ExchangeKinds =>
    /\ op = "__init__" => ~_authenticated
    /\ op = "is_authenticated" =>
         (outcome = OK /\ result = pre.authenticated
          /\ _authenticated = pre.authenticated)
    /\ (~pre.authenticated /\ _authenticated) =>
         (op = "authenticate" /\ outcome = OK /\ ProbeSucceeded)
    /\ (pre.authenticated /\ op # "unauthenticate") => _authenticated
    /\ op = "unauthenticate" => ~_authenticated

\* A client that held the key of an earlier authenticate call and was not
\* authenticated made the flag True again with another key.
C22_Witness ==
  /\ kind \in ExchangeKinds
  /\ op = "authenticate"
  /\ pre.key = "k1"
  /\ ~pre.authenticated
  /\ _api_key = "k2"
  /\ ProbeSucceeded
  /\ _authenticated

\* C23: authenticate on an Exchange client that is authenticated raises
\* AuthenticationError, sends no request and leaves the flag, the key and
\* the secret as they were.
C23_AuthenticateTwiceRefused ==
  (kind \in ExchangeKinds /\ op = "authenticate" /\ pre.authenticated)
    => /\ outcome = "AuthenticationError"
       /\ requests = << >>
       /\ _authenticated
       /\ _api_key = pre.key
       /\ _api_secret = pre.secret

\* A client authenticated with key k1 was asked to authenticate with key k2
\* and kept k1.
C23_Witness ==
  /\ kind \in ExchangeKinds
  /\ op = "authenticate"
  /\ pre.authenticated
  /\ pre.key = "k1"
  /\ args.api_key = "k2"
  /\ outcome = "AuthenticationError"
  /\ _api_key = "k1"

\* C24: the constructor of BitfinexClient and of BitfinexV2Client raises
\* ValueError when exactly one of the key and the secret is supplied, and
\* every client whose authenticated flag is True holds a non-empty key and
\* a non-empty secret that is not None.
C24_BothCredentialsOrNeither ==
  kind \in {"BitfinexClient", "BitfinexV2Client"} =>
    /\ (op = "__init__" /\ Truthy(args.api_key) # Truthy(args.api_secret))
         => outcome = "ValueError"
    /\ (Alive /\ _authenticated)
         => (_api_key # Unset /\ Truthy(_api_key) /\ Truthy(_api_secret))

\* The requests of the last call for the list at path.
Asked(path) == {i \in DOMAIN requests : requests[i].path = path}

\* The rule of a stored list, before and after the last call: a stored
\* list is not requested and stays as it is; a list not stored is requested
\* at most once, is stored when that request succeeded and is still not
\* stored when it failed or was not made.
StoredOnce(before, after, path) ==
  IF before # None
    THEN Asked(path) = {} /\ after = before
  ELSE /\ Cardinality(Asked(path)) <= 1
       /\ \A i \in Asked(path) : Rejected(responses[i]) <=> after = None
       /\ Asked(path) = {} => after = None

\* The calls that need the symbol or market list before anything else.
NeedsList ==
  \/ op \in {"pairs", "ticker", "trades"}
  \/ /\ op = "place_order"
     /\ pre.authenticated
     /\ ~InvalidOrder

\* C25: an Exchange client requests its symbol or market list, and on
\* Bitfinex its symbol details, until one request succeeds and never after:
\* pairs, ticker, trades and place_order reuse the stored list, and a fetch
\* that fails stores nothing, so that the next of these calls requests it
\* again.
C25_ListsFetchedOnce ==
  /\ kind = "Bitfinex" =>
       /\ StoredOnce(pre.SYMBOLS, _SYMBOLS, "/symbols")
       /\ StoredOnce(pre.DETAILS, _SYMBOL_DETAILS, "/symbols_details")
       /\ (NeedsList /\ pre.SYMBOLS = None) => Asked("/symbols") # {}
  /\ kind = "Bittrex" =>
       /\ StoredOnce(pre.MARKETS, _MARKETS, "/public/getmarkets")
       /\ (NeedsList /\ pre.MARKETS = None) =>
            Asked("/public/getmarkets") # {}

\* Bittrex placed an order, three uses of the market list, without
\* requesting the list it had stored.
C25_Witness ==
  /\ kind = "Bittrex"
  /\ op = "place_order"
  /\ outcome = OK
  /\ pre.MARKETS # None
  /\ _MARKETS = pre.MARKETS
  /\ Len(requests) = 1

\* The symbol of the pair of the order, as each exchange writes it.
OrderSymbol ==
  IF kind = "Bitfinex" THEN lower(args.secondary) \o lower(args.primary)
  ELSE upper(args.primary) \o "-" \o upper(args.secondary)

\* The client has the list of the exchange and the pair is not in it.
Unlisted ==
  IF kind = "Bitfinex"
    THEN _SYMBOLS # None /\ OrderSymbol \notin Range(_SYMBOLS[1])
  ELSE _MARKETS # None /\ OrderSymbol \notin DOMAIN _MARKETS[1]

\* The client has the sizes of the pair and the amount is below the minimum
\* or, on Bitfinex, above the maximum.
OutOfSize ==
  IF kind = "Bitfinex"
    THEN /\ _SYMBOL_DETAILS # None
         /\ OrderSymbol \in DOMAIN _SYMBOL_DETAILS[1]
         /\ LET d == _SYMBOL_DETAILS[1][OrderSymbol]
            IN  \/ args.amount < float(d.minimum_order_size)
                \/ args.amount > float(d.maximum_order_size)
  ELSE /\ _MARKETS # None
       /\ OrderSymbol \in DOMAIN _MARKETS[1]
       /\ args.amount < float(_MARKETS[1][OrderSymbol].MinTradeSize)

\* The paths of the endpoints that create an order.
OrderPaths == {"/order/new", "/market/buylimit", "/public/selllimit"}
NoOrderSent == \A i \in DOMAIN requests : requests[i].path \notin OrderPaths

\* C26 as stated: place_order for an amount out of the sizes of the pair, or
\* for a pair that is not listed, raises ValueError and sends no request to
\* the order endpoint.
C26_BadOrderRaisesValueError ==
  (kind \in ExchangeKinds /\ op = "place_order" /\ (Unlisted \/ OutOfSize))
    => (outcome = "ValueError" /\ NoOrderSent)

\* C26, amended: such a place_order sends no request to the order endpoint
\* and raises ValueError on an authenticated client, AuthenticationError on
\* a client that is not authenticated.
C26_BadOrderNeverSent ==
  (kind \in ExchangeKinds /\ op = "place_order" /\ (Unlisted \/ OutOfSize))
    => /\ NoOrderSent
       /\ outcome = IF pre.authenticated THEN "ValueError"
                    ELSE "AuthenticationError"

\* An authenticated Bitfinex client refused an order of 3 for a pair that
\* trades in sizes up to 2, after it had requested the sizes.
C26_Witness ==
  /\ kind = "Bitfinex"
  /\ op = "place_order"
  /\ pre.authenticated
  /\ pre.DETAILS = None
  /\ args.amount = 3
  /\ OutOfSize
  /\ outcome = "ValueError"
  /\ error = "Maximum order size"
  /\ requests # << >>
  /\ NoOrderSent

\* C27: every request that place_order of Bittrex sends, other than the
\* request for the market list, is signed and goes to /market/buylimit when
\* the side is buy and to /market/selllimit when it is sell.
C27_BittrexOrderEndpoints ==
  (kind = "Bittrex" /\ op = "place_order") =>
    \A i \in DOMAIN requests :
      requests[i].path # "/public/getmarkets" =>
        /\ SignatureMatches(requests[i])
        /\ requests[i].path = IF args.side = "buy" THEN "/market/buylimit"
                              ELSE "/market/selllimit"

====
